---- MODULE Spec2Model ----
(***************************************************************************)
(* Model of the Datastore client of google-cloud (datastore/client.rs,     *)
(* datastore/transaction.rs, datastore/index_excluded.rs): the conversion  *)
(* of keys, values and entities to wire messages, query pagination, the   *)
(* lookup loop and the construction of mutations.                          *)
(*                                                                         *)
(* Conventions.  Option<T> is a sequence of length 0 (None) or 1 (Some).   *)
(* A String that is split or compared piecewise (property names, index    *)
(* exclusion paths) is a sequence of one-character strings; other strings  *)
(* are TLA+ strings.  A HashMap is a function.  Vec<u8> is a sequence of   *)
(* numbers.                                                                *)
(***************************************************************************)
EXTENDS Integers, Sequences, FiniteSets, TLC

None == <<>>
Some(x) == <<x>>
IsSome(o) == Len(o) = 1
Unwrap(o) == o[1]

Range(s) == {s[i] : i \in 1..Len(s)}

RECURSIVE Reverse(_)
Reverse(s) == IF s = <<>> THEN <<>> ELSE Append(Reverse(Tail(s)), Head(s))

\* All sequences over S of length at most n
SeqsUpTo(S, n) == UNION {[1..m -> S] : m \in 0..n}

(***************************************************************************)
(* Keys                                                                    *)
(***************************************************************************)

Incomplete == [tag |-> "Incomplete"]
IntID(n) == [tag |-> "IntID", int |-> n]
StringID(s) == [tag |-> "StringID", str |-> s]

\* Key { kind, id, parent, namespace, is_new }
MkKey(kind, id, parent, namespace, is_new) ==
    [kind |-> kind, id |-> id, parent |-> parent, namespace |-> namespace,
     is_new |-> is_new]

get_kind(key) == key.kind
get_id(key) == key.id
get_parent(key) == key.parent
get_namespace(key) == key.namespace
is_incomplete(key) == key.id = Incomplete

\* The parent chain of a key, leaf first, as the while-let loop of
\* convert_key visits it.
RECURSIVE KeyChain(_)
KeyChain(key) ==
    <<key>> \o (IF IsSome(get_parent(key)) THEN KeyChain(Unwrap(get_parent(key)))
                ELSE <<>>)

PathElement(current) ==
    [kind |-> get_kind(current),
     id_type |-> CASE get_id(current).tag = "Incomplete" -> None
                   [] get_id(current).tag = "IntID" ->
                        Some([tag |-> "Id", id |-> get_id(current).int])
                   [] get_id(current).tag = "StringID" ->
                        Some([tag |-> "Name", name |-> get_id(current).str])]

\* a conversion that leaves the path as collected, leaf first
convert_key_LeafFirst(project_name, key) ==
    [partition_id |-> Some([database_id |-> "",
                            project_id |-> project_name,
                            namespace_id |-> IF IsSome(get_namespace(key))
                                             THEN Unwrap(get_namespace(key))
                                             ELSE ""]),
     path |-> LET chain == KeyChain(key)
              IN [i \in 1..Len(chain) |-> PathElement(chain[i])]]

convert_key(project_name, key) ==
    [partition_id |-> Some([database_id |-> "",
                            project_id |-> project_name,
                            namespace_id |-> IF IsSome(get_namespace(key))
                                             THEN Unwrap(get_namespace(key))
                                             ELSE ""]),
     path |-> LET chain == KeyChain(key)
              IN Reverse([i \in 1..Len(chain) |-> PathElement(chain[i])])]

\* Key::from(api::Key): folds the path elements from the left, each new key
\* taking the key built so far as its parent.
RECURSIVE FoldPath(_, _, _)
FoldPath(path, acc, ns) ==
    IF path = <<>> THEN acc
    ELSE LET el == Head(path)
             key_id == IF el.id_type = None THEN Incomplete
                       ELSE IF Unwrap(el.id_type).tag = "Id"
                            THEN IntID(Unwrap(el.id_type).id)
                            ELSE StringID(Unwrap(el.id_type).name)
         IN FoldPath(Tail(path),
                     Some(MkKey(el.kind, key_id, acc,
                                IF ns = "" THEN None ELSE Some(ns), FALSE)),
                     ns)

Key_from(wire_key) ==
    Unwrap(FoldPath(wire_key.path, None, Unwrap(wire_key.partition_id).namespace_id))

(***************************************************************************)
(* Index exclusion                                                         *)
(***************************************************************************)

Dot == "."

\* str::split_once("."): None when the string holds no '.', else the text
\* before and after the first one.
RECURSIVE FirstDot(_, _)
FirstDot(s, i) ==
    IF i > Len(s) THEN 0 ELSE IF s[i] = Dot THEN i ELSE FirstDot(s, i + 1)

split_once(s) ==
    LET d == FirstDot(s, 1)
    IN IF d = 0 THEN None
       ELSE Some(<<SubSeq(s, 1, d - 1), SubSeq(s, d + 1, Len(s))>>)

\* a closure that drops a path without a separator
NarrowElement_NoWhole(element, property) ==
    LET sp == split_once(element)
    IN IF IsSome(sp) /\ Unwrap(sp)[1] = property THEN Some(Unwrap(sp)[2]) ELSE None

\* The closure of the filter_map in get_exclude_from_indexes
NarrowElement(element, property) ==
    LET sp == split_once(element)
        pair == IF IsSome(sp) THEN Unwrap(sp) ELSE <<element, <<>>>>
    IN IF pair[1] = property THEN Some(pair[2]) ELSE None

RECURSIVE FilterMapNarrow(_, _)
FilterMapNarrow(list, property) ==
    IF list = <<>> THEN <<>>
    ELSE NarrowElement(Head(list), property) \o FilterMapNarrow(Tail(list), property)

\* a narrowing that keeps the paths of the other branches
RECURSIVE FilterMapKeep(_, _)
FilterMapKeep(list, property) ==
    IF list = <<>> THEN <<>>
    ELSE (IF IsSome(NarrowElement(Head(list), property))
          THEN NarrowElement(Head(list), property) ELSE <<Head(list)>>)
         \o FilterMapKeep(Tail(list), property)

get_exclude_from_indexes_AllBranches(list_excluded, property) ==
    FilterMapKeep(list_excluded, property)

get_exclude_from_indexes(list_excluded, property) ==
    FilterMapNarrow(list_excluded, property)

\* a test that accepts any list whose first entry is empty
check_exclude_from_indexes_First(list_excluded) ==
    IF Len(list_excluded) >= 1 THEN list_excluded[1] = <<>> ELSE FALSE

check_exclude_from_indexes(list_excluded) ==
    IF Len(list_excluded) = 1 THEN list_excluded[1] = <<>> ELSE FALSE

\* The closure of the filter_map in IndexExcluded::ckeck_value
CkeckElement(element, property) ==
    LET sp == split_once(element)
        pair == IF IsSome(sp) THEN Unwrap(sp) ELSE <<element, <<>>>>
    IN IF pair[1] = property THEN Some(pair[2]) ELSE None

RECURSIVE FilterMapCkeck(_, _)
FilterMapCkeck(list, property) ==
    IF list = <<>> THEN <<>>
    ELSE CkeckElement(Head(list), property) \o FilterMapCkeck(Tail(list), property)

\* IndexExcluded { kind: HashMap<String, PropertyExcluded { property }> }
ckeck_value(self, kind, property) ==
    IF kind \notin DOMAIN self.kind THEN <<>>
    ELSE FilterMapCkeck(self.kind[kind].property, property)

(***************************************************************************)
(* Values                                                                  *)
(***************************************************************************)

OptionValue(o) == [tag |-> "OptionValue", opt |-> o]
BooleanValue(b) == [tag |-> "BooleanValue", b |-> b]
IntegerValue(i) == [tag |-> "IntegerValue", i |-> i]
DoubleValue(d) == [tag |-> "DoubleValue", d |-> d]
\* a NaiveDateTime, held as whole seconds since the epoch and the
\* nanoseconds within the second
TimestampValue(secs, nanos) == [tag |-> "TimestampValue", secs |-> secs, nanos |-> nanos]
KeyValue(k) == [tag |-> "KeyValue", key |-> k]
StringValue(s) == [tag |-> "StringValue", s |-> s]
BlobValue(bytes) == [tag |-> "BlobValue", bytes |-> bytes]
GeoPointValue(lat, lng) == [tag |-> "GeoPointValue", lat |-> lat, lng |-> lng]
EntityValue(props) == [tag |-> "EntityValue", props |-> props]
ArrayValue(vals) == [tag |-> "ArrayValue", vals |-> vals]

RECURSIVE convert_value(_, _, _, _)
RECURSIVE convert_value_type(_, _, _, _)

\* a conversion that marks arrays like any other node
convert_value_ArrayAmbient(project_name, value, path_excluded, index_excluded) ==
    [meaning |-> 0,
     exclude_from_indexes |-> index_excluded,
     value_type |-> Some(convert_value_type(project_name, value, path_excluded,
                                            index_excluded))]

\* a conversion in which an array takes up a segment of the paths: its
\* elements are converted with no path left
convert_value_type_ArrayConsumes(project_name, value, path_excluded, index_excluded) ==
    CASE value.tag = "OptionValue" ->
            IF IsSome(value.opt)
            THEN convert_value_type(project_name, Unwrap(value.opt), path_excluded,
                                    index_excluded)
            ELSE [tag |-> "NullValue", null |-> 0]
      [] value.tag = "BooleanValue" -> [tag |-> "BooleanValue", b |-> value.b]
      [] value.tag = "IntegerValue" -> [tag |-> "IntegerValue", i |-> value.i]
      [] value.tag = "DoubleValue" -> [tag |-> "DoubleValue", d |-> value.d]
      [] value.tag = "TimestampValue" ->
            [tag |-> "TimestampValue", seconds |-> value.secs, nanos |-> value.nanos]
      [] value.tag = "KeyValue" ->
            [tag |-> "KeyValue", key |-> convert_key(project_name, value.key)]
      [] value.tag = "StringValue" -> [tag |-> "StringValue", s |-> value.s]
      [] value.tag = "BlobValue" -> [tag |-> "BlobValue", bytes |-> value.bytes]
      [] value.tag = "GeoPointValue" ->
            [tag |-> "GeoPointValue", latitude |-> value.lat, longitude |-> value.lng]
      [] value.tag = "EntityValue" ->
            [tag |-> "EntityValue",
             entity |->
                [key |-> None,
                 properties |->
                    [k \in DOMAIN value.props |->
                        LET new_list_excluded ==
                                get_exclude_from_indexes(path_excluded, k)
                        IN convert_value(project_name, value.props[k],
                                         new_list_excluded,
                                         check_exclude_from_indexes(new_list_excluded))]]]
      [] value.tag = "ArrayValue" ->
            [tag |-> "ArrayValue",
             values |-> [i \in 1..Len(value.vals) |->
                            convert_value(project_name, value.vals[i], <<>>,
                                          index_excluded)]]

convert_value(project_name, value, path_excluded, index_excluded) ==
    [meaning |-> 0,
     exclude_from_indexes |->
        CASE value.tag = "OptionValue" ->
                IF IsSome(value.opt)
                THEN (IF Unwrap(value.opt).tag = "ArrayValue" THEN FALSE
                      ELSE index_excluded)
                ELSE index_excluded
          [] value.tag = "ArrayValue" -> FALSE
          [] OTHER -> index_excluded,
     value_type |-> Some(convert_value_type(project_name, value, path_excluded,
                                            index_excluded))]

convert_value_type(project_name, value, path_excluded, index_excluded) ==
    CASE value.tag = "OptionValue" ->
            IF IsSome(value.opt)
            THEN convert_value_type(project_name, Unwrap(value.opt), path_excluded,
                                    index_excluded)
            ELSE [tag |-> "NullValue", null |-> 0]
      [] value.tag = "BooleanValue" -> [tag |-> "BooleanValue", b |-> value.b]
      [] value.tag = "IntegerValue" -> [tag |-> "IntegerValue", i |-> value.i]
      [] value.tag = "DoubleValue" -> [tag |-> "DoubleValue", d |-> value.d]
      [] value.tag = "TimestampValue" ->
            [tag |-> "TimestampValue", seconds |-> value.secs, nanos |-> value.nanos]
      [] value.tag = "KeyValue" ->
            [tag |-> "KeyValue", key |-> convert_key(project_name, value.key)]
      [] value.tag = "StringValue" -> [tag |-> "StringValue", s |-> value.s]
      [] value.tag = "BlobValue" -> [tag |-> "BlobValue", bytes |-> value.bytes]
      [] value.tag = "GeoPointValue" ->
            [tag |-> "GeoPointValue", latitude |-> value.lat, longitude |-> value.lng]
      [] value.tag = "EntityValue" ->
            [tag |-> "EntityValue",
             entity |->
                [key |-> None,
                 properties |->
                    [k \in DOMAIN value.props |->
                        LET new_list_excluded ==
                                get_exclude_from_indexes(path_excluded, k)
                        IN convert_value(project_name, value.props[k],
                                         new_list_excluded,
                                         check_exclude_from_indexes(new_list_excluded))]]]
      [] value.tag = "ArrayValue" ->
            [tag |-> "ArrayValue",
             values |-> [i \in 1..Len(value.vals) |->
                            convert_value(project_name, value.vals[i], path_excluded,
                                          index_excluded)]]

\* Entity { key, properties }.  A properties value that is not an entity
\* makes convert_entity panic: the result is then the fault marker.
Panic == [panic |-> "unexpected non-entity datastore value"]

\* a conversion that takes a non-entity value for an entity without
\* properties
convert_entity_Coerce(project_name, entity, index_excluded) ==
    [key |-> Some(convert_key(project_name, entity.key)),
     properties |->
        IF entity.properties.tag # "EntityValue" THEN <<>>
        ELSE [k \in DOMAIN entity.properties.props |->
                LET path_excluded ==
                        ckeck_value(index_excluded, get_kind(entity.key), k)
                IN convert_value(project_name, entity.properties.props[k],
                                 path_excluded,
                                 check_exclude_from_indexes(path_excluded))]]

convert_entity(project_name, entity, index_excluded) ==
    IF entity.properties.tag # "EntityValue" THEN Panic
    ELSE [key |-> Some(convert_key(project_name, entity.key)),
          properties |->
            [k \in DOMAIN entity.properties.props |->
                LET path_excluded ==
                        ckeck_value(index_excluded, get_kind(entity.key), k)
                IN convert_value(project_name, entity.properties.props[k],
                                 path_excluded,
                                 check_exclude_from_indexes(path_excluded))]]

(***************************************************************************)
(* Wire messages back to values (Value::from, Entity::from)                *)
(***************************************************************************)

RECURSIVE Value_from(_)
Value_from(value_type) ==
    CASE value_type.tag = "NullValue" -> OptionValue(None)
      [] value_type.tag = "BooleanValue" -> BooleanValue(value_type.b)
      [] value_type.tag = "IntegerValue" -> IntegerValue(value_type.i)
      [] value_type.tag = "DoubleValue" -> DoubleValue(value_type.d)
      [] value_type.tag = "TimestampValue" ->
            TimestampValue(value_type.seconds, value_type.nanos)
      [] value_type.tag = "KeyValue" -> KeyValue(Key_from(value_type.key))
      [] value_type.tag = "StringValue" -> StringValue(value_type.s)
      [] value_type.tag = "BlobValue" -> BlobValue(value_type.bytes)
      [] value_type.tag = "GeoPointValue" ->
            GeoPointValue(value_type.latitude, value_type.longitude)
      [] value_type.tag = "EntityValue" ->
            EntityValue([k \in DOMAIN value_type.entity.properties |->
                            Value_from(Unwrap(value_type.entity.properties[k].value_type))])
      [] value_type.tag = "ArrayValue" ->
            ArrayValue([i \in 1..Len(value_type.values) |->
                            Value_from(Unwrap(value_type.values[i].value_type))])

Entity_from(wire_entity) ==
    [key |-> Key_from(Unwrap(wire_entity.key)),
     properties |->
        EntityValue([k \in DOMAIN wire_entity.properties |->
                        Value_from(Unwrap(wire_entity.properties[k].value_type))])]

(***************************************************************************)
(* Queries                                                                 *)
(***************************************************************************)

\* Filter::Equal(name, value) ... Filter::HasAncestor(value)
Filter(op, name, value) == [op |-> op, name |-> name, value |-> value]
HasAncestor(value) == [op |-> "HasAncestor", value |-> value]

FilterOps ==
    {"Equal", "GreaterThan", "LessThan", "GreaterThanOrEqual", "LessThanOrEqual",
     "HasAncestor", "In", "NotIn", "NotEqual"}

\* The property filter built by the closure of convert_filter
PropertyFilterOf(project_name, filter) ==
    [filter_type |->
        Some([tag |-> "PropertyFilter",
              op |-> filter.op,
              property |-> Some([name |-> IF filter.op = "HasAncestor"
                                          THEN "__key__" ELSE filter.name]),
              value |-> Some(convert_value(project_name, filter.value, <<>>, FALSE))])]

\* a conversion that collects the property filters back to front
convert_filter_Reversed(project_name, filters, composite_filter) ==
    IF filters # <<>>
    THEN Some([filter_type |->
                Some([tag |-> "CompositeFilter",
                      op |-> IF composite_filter = "And" THEN "And" ELSE "Or",
                      filters |-> [i \in 1..Len(filters) |->
                                      PropertyFilterOf(project_name,
                                                       filters[Len(filters) + 1 - i])]])])
    ELSE None

convert_filter(project_name, filters, composite_filter) ==
    IF filters # <<>>
    THEN Some([filter_type |->
                Some([tag |-> "CompositeFilter",
                      op |-> IF composite_filter = "And" THEN "And" ELSE "Or",
                      filters |-> [i \in 1..Len(filters) |->
                                      PropertyFilterOf(project_name, filters[i])]])])
    ELSE None

\* Order::Asc(name) | Order::Desc(name)
Asc(name) == [dir |-> "Asc", name |-> name]
Desc(name) == [dir |-> "Desc", name |-> name]

PropertyOrderOf(order) ==
    [property |-> Some([name |-> order.name]),
     direction |-> IF order.dir = "Asc" THEN "Ascending" ELSE "Descending"]

ProjectionOf(name) == [property |-> Some([name |-> name])]

PropertyReferenceOf(name) == [name |-> name]

\* a conversion that starts every page at the query's own cursor
convert_query_OwnCursor(project_name, cur_query, cursor) ==
    [kind |-> <<[name |-> cur_query.kind]>>,
     projection |-> [i \in 1..Len(cur_query.projections) |->
                        ProjectionOf(cur_query.projections[i])],
     filter |-> convert_filter(project_name, cur_query.filters,
                               cur_query.composite_filter),
     order |-> [i \in 1..Len(cur_query.ordering) |-> PropertyOrderOf(cur_query.ordering[i])],
     offset |-> cur_query.offset,
     limit |-> cur_query.limit,
     start_cursor |-> IF IsSome(cur_query.cursor) THEN Unwrap(cur_query.cursor)
                      ELSE <<>>,
     end_cursor |-> <<>>,
     distinct_on |-> [i \in 1..Len(cur_query.distinct_on) |->
                        PropertyReferenceOf(cur_query.distinct_on[i])]]

convert_query(project_name, cur_query, cursor) ==
    [kind |-> <<[name |-> cur_query.kind]>>,
     projection |-> [i \in 1..Len(cur_query.projections) |->
                        ProjectionOf(cur_query.projections[i])],
     filter |-> convert_filter(project_name, cur_query.filters,
                               cur_query.composite_filter),
     order |-> [i \in 1..Len(cur_query.ordering) |-> PropertyOrderOf(cur_query.ordering[i])],
     offset |-> cur_query.offset,
     limit |-> cur_query.limit,
     start_cursor |-> cursor,
     end_cursor |-> <<>>,
     distinct_on |-> [i \in 1..Len(cur_query.distinct_on) |->
                        PropertyReferenceOf(cur_query.distinct_on[i])]]

\* The read options of RunQueryRequest and RunAggregationQueryRequest
QueryReadOptions(cur_query, tx_id) ==
    Some([consistency_type |->
            Some(IF IsSome(tx_id)
                 THEN [tag |-> "Transaction", tx |-> Unwrap(tx_id)]
                 ELSE [tag |-> "ReadConsistency",
                       rc |-> IF cur_query.eventual THEN "Eventual" ELSE "Strong"])])

RunQueryRequest(project_name, cur_query, cursor, tx_id) ==
    [partition_id |-> Some([database_id |-> "",
                            project_id |-> project_name,
                            namespace_id |-> IF IsSome(cur_query.namespace)
                                             THEN Unwrap(cur_query.namespace)
                                             ELSE ""]),
     query_type |-> Some([tag |-> "Query",
                          query |-> convert_query(project_name, cur_query, cursor)]),
     read_options |-> QueryReadOptions(cur_query, tx_id),
     database_id |-> "",
     project_id |-> project_name]

(***************************************************************************)
(* Bounds and inputs                                                       *)
(***************************************************************************)

\* pages a query run may fetch before the server must report a final page
MaxPages == 3
\* entity results on one page
MaxPageLen == 2

\* keys one get_all call may request
MaxKeys == 3
\* Lookup rounds before the server must stop deferring
MaxRounds == 2

\* items of one put_all call, keys of one delete_all call
MaxBatch == 2
\* mutations a transaction may hold
MaxPending == 3
\* commit requests sent in one run
MaxCommits == 2
\* calls made in one run
MaxCalls == 3

ProjectName == "proj"

\* property names and exclusion paths, one character per element
s_a == <<"a">>
s_b == <<"b">>
s_zip == <<"z", "i", "p">>

K_root == MkKey("customer", IntID(1), None, None, FALSE)
K_child == MkKey("order", StringID("o1"), Some(K_root), None, FALSE)
K_ns == MkKey("customer", IntID(2), None, Some("ns"), FALSE)
K_name == MkKey("customer", StringID("c"), None, None, FALSE)

\* the keys a caller looks up
LookupKeys == {K_root, K_child, K_name}

NoIndexExcluded == [kind |-> <<>>]

\* what the server stores under a key
StoredProperties(key) ==
    CASE key = K_root -> EntityValue((s_a :> IntegerValue(1)))
      [] key = K_child -> EntityValue((s_a :> StringValue("x")) @@ (s_b :> BooleanValue(TRUE)))
      [] OTHER -> EntityValue((s_b :> BooleanValue(FALSE)))

StoredEntity(key) ==
    convert_entity(ProjectName, [key |-> key, properties |-> StoredProperties(key)],
                   NoIndexExcluded)

\* the index exclusion policy the client was built with
IndexPolicy == [kind |-> ("customer" :> [property |-> <<s_a, s_b \o <<Dot>> \o s_zip>>])]

K_incomplete == MkKey("customer", Incomplete, None, None, FALSE)
K_new == MkKey("order", IntID(5), Some(K_root), None, TRUE)

\* what a caller hands to put and put_all: a value whose into_entity()
\* gives an entity, or fails
Item(entity) == [ok |-> TRUE, entity |-> entity]
FailingItem == [ok |-> FALSE, err |-> "MissingProperty"]

PutRoot == Item([key |-> K_root, properties |-> EntityValue((s_a :> IntegerValue(1)))])
PutIncomplete ==
    Item([key |-> K_incomplete,
          properties |-> EntityValue((s_a :> StringValue("x"))
                                     @@ (s_b :> EntityValue((s_zip :> IntegerValue(7)))))])
PutNew == Item([key |-> K_new, properties |-> EntityValue((s_b :> BooleanValue(TRUE)))])
PutNonEntity == Item([key |-> K_child, properties |-> StringValue("x")])

PutItems == {PutRoot, PutIncomplete, PutNew, PutNonEntity, FailingItem}

DeleteKeys == {K_root, K_child, K_incomplete}

\* the lists a caller hands to put_all and to delete_all when it writes
\* both directly and through a transaction
PutLists ==
    {<<>>, <<PutIncomplete, PutRoot>>, <<PutRoot, PutNew, FailingItem>>,
     <<PutNew, PutNonEntity>>}
DeleteLists == {<<>>, <<K_child, K_root>>}

TxKeys == {<<7>>}

\* how construct_request ends, and how the call of the service ends
TokenOutcomes == {"ok", "token"}
ResponseOutcomes == {"ok", "transport"}

\* the types a caller decodes into: Value itself, and a record with one
\* field b whose type has no default
DecodeTypes == {"Value", "Record"}

\* entities a server may hold, as wire messages
WireEntities ==
    {convert_entity(ProjectName,
                    [key |-> K_root,
                     properties |-> EntityValue((s_a :> IntegerValue(1)))],
                    [kind |-> <<>>]),
     convert_entity(ProjectName,
                    [key |-> K_child,
                     properties |-> EntityValue((s_a :> StringValue("x"))
                                                @@ (s_b :> BooleanValue(TRUE)))],
                    [kind |-> <<>>])}

IsInjective(s) == \A i, j \in 1..Len(s) : s[i] = s[j] => i = j

PageEntityResults ==
    {[i \in 1..Len(s) |-> [entity |-> Some(s[i])]] :
        s \in {t \in SeqsUpTo(WireEntities, MaxPageLen) : IsInjective(t)}}

MoreResultsTypes ==
    {"Unspecified", "NotFinished", "MoreResultsAfterLimit",
     "MoreResultsAfterCursor", "NoMoreResults"}

EndCursors == {<<1>>, <<2>>}

TxIds == {None, Some(<<7>>)}

\* the queries a caller runs
Queries ==
    {[kind |-> "customer", namespace |-> None, filters |-> <<>>,
      composite_filter |-> "And", ordering |-> <<>>, projections |-> <<>>,
      distinct_on |-> <<>>, offset |-> 0, limit |-> None, cursor |-> None,
      eventual |-> FALSE],
     [kind |-> "order", namespace |-> Some("ns"),
      filters |-> <<Filter("Equal", "a", IntegerValue(1)),
                    HasAncestor(KeyValue(K_root))>>,
      composite_filter |-> "Or", ordering |-> <<Asc("a"), Desc("b")>>,
      projections |-> <<"a">>, distinct_on |-> <<"b">>, offset |-> 1,
      limit |-> Some(5), cursor |-> Some(<<9>>), eventual |-> TRUE],
     [kind |-> "order", namespace |-> None,
      filters |-> <<Filter("LessThan", "b", StringValue("m"))>>,
      composite_filter |-> "And", ordering |-> <<Desc("a")>>,
      projections |-> <<>>, distinct_on |-> <<>>, offset |-> 0,
      limit |-> Some(1), cursor |-> Some(<<>>), eventual |-> FALSE]}

\* Inputs of the conversion functions.  Paths are built from one letter and
\* the separator, so that first segments are "", "a", "aa", ... and a
\* remainder can itself hold a separator.
MaxPathLen == 3
\* the longest list of exclusion paths
MaxPaths == 2

PathChars == {"a", Dot}

Paths == SeqsUpTo(PathChars, MaxPathLen)

PathLists == SeqsUpTo(Paths, MaxPaths)

\* property names: the paths without a separator
Steps == {p \in Paths : Dot \notin Range(p)}

Kinds == {"customer", "order"}

\* the policies of a client: none, or one list of paths for kind customer
Policies ==
    {NoIndexExcluded} \cup
    {[kind |-> ("customer" :> [property |-> list])] : list \in PathLists}

s_aa == <<"a", "a">>
s_email == <<"e", "m", "a", "i", "l">>
s_address == <<"a", "d", "d", "r", "e", "s", "s">>
s_city == <<"c", "i", "t", "y">>

\* kind: customer: property: [email, address.zip]
ExamplePolicy ==
    [kind |-> ("customer" :> [property |-> <<s_email, s_address \o <<Dot>> \o s_zip>>])]

\* a customer with an email and an address that holds a zip and a city
ExampleCustomer ==
    [key |-> K_root,
     properties |->
        EntityValue(s_email :> StringValue("e") @@
                    s_address :> EntityValue(s_zip :> StringValue("z") @@
                                             s_city :> StringValue("c")))]

\* a customer with a zip at the top level, under another parent and one
\* level further down
BranchCustomer ==
    [key |-> K_root,
     properties |->
        EntityValue(s_email :> StringValue("e") @@
                    s_zip :> IntegerValue(1) @@
                    s_city :> EntityValue(s_zip :> IntegerValue(2)) @@
                    s_address :>
                        EntityValue(s_zip :> IntegerValue(3) @@
                                    s_email :> StringValue("f") @@
                                    s_city :> EntityValue(s_zip :> IntegerValue(4))))]

\* a customer whose property names are those of the generated paths
LetterCustomer ==
    [key |-> K_root,
     properties |->
        EntityValue(s_a :> EntityValue(s_a :> BooleanValue(TRUE) @@
                                       s_aa :> BooleanValue(FALSE)) @@
                    s_aa :> EntityValue(s_a :> BooleanValue(TRUE)))]

\* an entity of a kind the policies do not name
ExampleOrder ==
    [key |-> K_child,
     properties |-> EntityValue(s_email :> StringValue("e") @@ s_a :> IntegerValue(1))]

\* a customer whose property a holds a property with the empty name
EmptyNameCustomer ==
    [key |-> K_root,
     properties |->
        EntityValue(s_a :> EntityValue(<<>> :> IntegerValue(1) @@
                                       s_aa :> IntegerValue(2)))]

s_items == <<"i", "t", "e", "m", "s">>
s_sku == <<"s", "k", "u">>
s_gift == <<"g", "i", "f", "t">>

\* kind: customer: property: [items.sku, gift.sku]
ItemsPolicy ==
    [kind |-> ("customer" :>
                [property |-> <<s_items \o <<Dot>> \o s_sku, s_gift \o <<Dot>> \o s_sku>>])]

\* a customer with an array of items, one of them optional, one not an
\* entity, and with an optional gift; every item and the gift have a sku
ItemsCustomer ==
    [key |-> K_root,
     properties |->
        EntityValue(
            s_items :>
                ArrayValue(<<EntityValue(s_sku :> IntegerValue(1) @@
                                         s_city :> StringValue("c")),
                             OptionValue(Some(EntityValue(s_sku :> IntegerValue(2)))),
                             ArrayValue(<<EntityValue(s_sku :> IntegerValue(3))>>),
                             StringValue("s")>>) @@
            s_gift :> OptionValue(Some(EntityValue(s_sku :> IntegerValue(4) @@
                                                   s_items :> IntegerValue(5)))) @@
            s_sku :> IntegerValue(6))]

\* a customer with arrays and optionals under the names of the generated
\* paths
ArrayCustomer ==
    [key |-> K_root,
     properties |->
        EntityValue(
            s_a :> ArrayValue(<<EntityValue(s_a :> IntegerValue(1) @@
                                            s_aa :> ArrayValue(<<IntegerValue(1),
                                                                 StringValue("s")>>)),
                                IntegerValue(1)>>) @@
            s_aa :> OptionValue(Some(EntityValue(
                        s_a :> OptionValue(Some(ArrayValue(<<BooleanValue(TRUE)>>))) @@
                        s_aa :> OptionValue(None)))))]

ConvertEntities ==
    {ExampleCustomer, BranchCustomer, LetterCustomer, ExampleOrder, EmptyNameCustomer,
     ItemsCustomer, ArrayCustomer}

\* the policies an entity is converted under
ConvertPolicies == Policies \cup {ExamplePolicy, ItemsPolicy}

\* values of every variant but KeyValue, with optionals, arrays and nested
\* entities among them
ArrayOfTwo == ArrayValue(<<IntegerValue(1), StringValue("s")>>)

PlainValues ==
    {BooleanValue(TRUE), IntegerValue(7), DoubleValue(2), StringValue("s"),
     TimestampValue(1, 0), TimestampValue(86399, 999999999),
     BlobValue(<<0, 255>>), GeoPointValue(1, 2)}

NestedValues ==
    {OptionValue(None),
     OptionValue(Some(StringValue("s"))),
     OptionValue(Some(ArrayOfTwo)),
     OptionValue(Some(OptionValue(Some(ArrayOfTwo)))),
     OptionValue(Some(OptionValue(None))),
     ArrayValue(<<>>),
     ArrayOfTwo,
     ArrayValue(<<ArrayOfTwo, OptionValue(None)>>),
     ArrayValue(<<EntityValue(s_a :> IntegerValue(1) @@ s_aa :> ArrayOfTwo)>>),
     EntityValue(<<>>),
     EntityValue(s_a :> ArrayOfTwo @@ s_aa :> OptionValue(None)),
     EntityValue(s_a :> EntityValue(s_a :> OptionValue(Some(ArrayOfTwo)) @@
                                    s_aa :> TimestampValue(1, 5)) @@
                 s_aa :> BooleanValue(FALSE))}

ConvertValues == PlainValues \cup NestedValues

\* the lists a value is converted with: no path or one
ValuePathLists == {list \in PathLists : Len(list) <= 1}

\* the longest parent chain of a key that is converted
MaxKeyDepth == 3

KeyIds == {Incomplete, IntID(1), StringID("n")}

\* the keys with a parent chain of exactly depth elements, without
\* namespace and new mark
RECURSIVE ChainsOfDepth(_)
ChainsOfDepth(depth) ==
    IF depth = 1
    THEN {MkKey(kind, id, None, None, FALSE) : kind \in Kinds, id \in KeyIds}
    ELSE {MkKey(kind, id, Some(parent), None, FALSE) :
            kind \in Kinds, id \in KeyIds, parent \in ChainsOfDepth(depth - 1)}

\* keys of every depth, with and without a namespace and a new mark
ConvertKeys ==
    {[key EXCEPT !.namespace = namespace, !.is_new = is_new] :
        key \in UNION {ChainsOfDepth(depth) : depth \in 1..MaxKeyDepth},
        namespace \in {None, Some("ns")},
        is_new \in BOOLEAN}

\* the most aggregations of one aggregation query
MaxAggregations == 2

\* Aggregation::Count(alias) | Sum(alias, property) | Avg(alias, property)
Count(alias) == [tag |-> "Count", alias |-> alias]
Sum(alias, property) == [tag |-> "Sum", alias |-> alias, property |-> property]
Avg(alias, property) == [tag |-> "Avg", alias |-> alias, property |-> property]

Aggregations ==
    {Count("n"), Count("m"), Sum("s", "price"), Sum("n", "qty"), Avg("m", "price")}

\* the aggregation results a server may answer with: none, one or two, each
\* with a value per alias asked for
AggregationResult(aggregations, value_type) ==
    [aggregate_properties |->
        [alias \in {aggregations[i].alias : i \in 1..Len(aggregations)} |->
            [meaning |-> 0, exclude_from_indexes |-> FALSE,
             value_type |-> Some(value_type)]]]

AggregationBatches(aggregations) ==
    LET first == AggregationResult(aggregations, [tag |-> "IntegerValue", i |-> 3])
        second == AggregationResult(aggregations, [tag |-> "DoubleValue", d |-> 4])
    IN {<<>>, <<first>>, <<first, second>>, <<second, first>>}

\* how the call of run_aggregation_query ends: a batch, an error, or a
\* response without a batch
AggregationOutcomes == {"ok", "transport", "nobatch"}

\* the most fields of a record type that is decoded
MaxFields == 2

\* a field type as written: the identifiers of its path, and whether the
\* last one has generic arguments
Ty(path, args) == [path |-> path, args |-> args]

\* FieldContainer { ident, rename, default, ty }
Field(ident, rename, default, ty) ==
    [ident |-> ident, rename |-> rename, default |-> default, ty |-> ty]

FieldDecls ==
    {Field("name", None, None, Ty(<<"String">>, FALSE)),
     Field("age", None, None, Ty(<<"i64">>, FALSE)),
     Field("age", None, Some(IntegerValue(18)), Ty(<<"i64">>, FALSE)),
     Field("nick", None, None, Ty(<<"Option">>, TRUE)),
     Field("active", None, None, Ty(<<"bool">>, FALSE)),
     Field("score", None, None, Ty(<<"f64">>, FALSE)),
     Field("tags", None, None, Ty(<<"Vec">>, TRUE)),
     Field("born", None, None, Ty(<<"chrono", "NaiveDateTime">>, FALSE)),
     Field("last_name", None, None, Ty(<<"Key">>, FALSE)),
     Field("zip_code", Some("zip"), None, Ty(<<"i32">>, FALSE)),
     Field("level", None, Some(IntegerValue(1)), Ty(<<"i32">>, FALSE)),
     Field("full", None, None, Ty(<<"std", "string", "String">>, FALSE))}

\* the record types: up to MaxFields fields with different identifiers
StructDecls ==
    {fields \in SeqsUpTo(FieldDecls, MaxFields) :
        \A i, j \in 1..Len(fields) : fields[i].ident = fields[j].ident => i = j}

\* enum RenameAll
RenameAlls ==
    {"LowerCase", "UpperCase", "PascalCase", "CamelCase", "SnakeCase",
     "ScreamingSnakeCase", "KebabCase", "ScreamingKebabCase"}

\* a value of each field type, as the Value it is stored as
StoredAs(ty) ==
    LET last == ty.path[Len(ty.path)]
    IN CASE last = "String" -> StringValue("s")
         [] last \in {"i64", "i32"} -> IntegerValue(7)
         [] last = "Option" -> StringValue("n")
         [] last = "bool" -> BooleanValue(TRUE)
         [] last = "f64" -> DoubleValue(2)
         [] last = "Vec" -> ArrayValue(<<StringValue("t")>>)
         [] last = "NaiveDateTime" -> TimestampValue(1, 5)
         [] last = "Key" -> KeyValue(K_root)

\* a value that no field type declared here decodes
Undecodable == BlobValue(<<1>>)

NonEntityValues == {StringValue("s"), ArrayValue(<<>>), OptionValue(None)}

\* filters a query may carry
MaxFilters == 2

\* CompositeFilter::And | CompositeFilter::Or
CompositeFilters == {"And", "Or"}

\* one filter of every variant, and a second name for Equal
FilterInputs ==
    {Filter(op, "a", IntegerValue(1)) : op \in FilterOps \ {"HasAncestor"}}
        \cup {Filter("Equal", "b", StringValue("m")),
              HasAncestor(KeyValue(K_root))}

FilterLists == SeqsUpTo(FilterInputs, MaxFilters)

(***************************************************************************)
(* State                                                                   *)
(***************************************************************************)

VARIABLES
    \* Client::query_run
    q_pc,         \* "idle", "loop", "wait", "done", "err", "panic"
    q_query,      \* the caller's query (Option)
    q_tx,         \* tx_id
    q_cur_query,  \* cur_query (Option)
    q_cursor,     \* cursor
    q_output,     \* output
    q_result,     \* what query_run returned (Option)
    q_requests,   \* the RunQuery requests issued so far, in order
    q_pages       \* the response batches received so far, in order

qvars == <<q_pc, q_query, q_tx, q_cur_query, q_cursor, q_output, q_result,
           q_requests, q_pages>>

VARIABLES
    \* Client::get_all_run
    l_pc,         \* "idle", "loop", "wait", "done", "err"
    l_og_keys,    \* og_keys
    l_tx,         \* tx_id
    l_keys,       \* keys
    l_found,      \* found
    l_result,     \* what get_all_run returned (Option)
    l_requests,   \* the Lookup requests issued so far, in order
    l_responses,  \* the Lookup responses received so far, in order
    \* the server
    l_store       \* the keys that have an entity

lvars == <<l_pc, l_og_keys, l_tx, l_keys, l_found, l_result, l_requests,
           l_responses, l_store>>

VARIABLES
    \* writes through a Client and a Transaction
    w_pc,         \* "run", or "panic" once a call has panicked
    w_client,     \* the Client: project_name and index_excluded
    w_tx,         \* the Transaction the caller holds (Option): client, tx_key,
                  \* commit_request
    w_supplied,   \* the entities and keys queued on the transaction, as the
                  \* caller supplied them, in order
    w_last,       \* the latest call (Option): operation, result and, for a
                  \* call on the Client, arguments
    w_sent,       \* the latest commit request sent (Option)
    w_nsent,      \* how many commit requests were sent
    w_call,       \* the call on the Client that is suspended (Option)
    w_txcall,     \* the call on the Transaction that is suspended (Option)
    w_ncalls      \* how many calls were made

wvars == <<w_pc, w_client, w_tx, w_supplied, w_last, w_sent, w_nsent, w_call,
           w_txcall, w_ncalls>>

VARIABLES
    \* one call of a function that reads no state of the client but its
    \* project and policy: a conversion, or aggregation_query_run
    c_fn,         \* the function called, "none" before the first call
    c_args,       \* its arguments
    c_result      \* what it returned

cvars == <<c_fn, c_args, c_result>>

vars == <<qvars, lvars, wvars, cvars>>

\* what a query run, a lookup and a write leave alone
not_query == <<lvars, wvars, cvars>>
not_lookup == <<qvars, wvars, cvars>>
not_write == <<qvars, lvars, cvars>>
not_convert == <<qvars, lvars, wvars>>

(***************************************************************************)
(* Client::query_run                                                       *)
(***************************************************************************)

\* a loop that ends only on the indicator NoMoreResults
QueryHalts_NoMoreOnly(more_results) == more_results = "NoMoreResults"

\* the test that ends the loop
QueryHalts(more_results) == more_results # "NotFinished"

\* an accumulation that keeps only the entities of the latest page
QueryExtend_Replace(output, entity_results) ==
    [i \in 1..Len(entity_results) |-> Entity_from(Unwrap(entity_results[i].entity))]

\* output.extend(results.entity_results ... Entity::from(el.entity.unwrap()))
QueryExtend(output, entity_results) ==
    output \o [i \in 1..Len(entity_results) |->
                    Entity_from(Unwrap(entity_results[i].entity))]

\* entry: output, cur_query and cursor are set up
QueryRun(query, tx_id) ==
    /\ q_pc = "idle"
    /\ q_pc' = "loop"
    /\ q_query' = Some(query)
    /\ q_tx' = tx_id
    /\ q_cur_query' = Some(query)
    /\ q_cursor' = IF IsSome(query.cursor) THEN Unwrap(query.cursor) ELSE <<>>
    /\ q_output' = <<>>
    /\ UNCHANGED <<q_result, q_requests, q_pages>>
    /\ UNCHANGED not_query

\* top of the loop: the request is built, the token attached, and it is sent
QuerySend ==
    /\ q_pc = "loop"
    /\ q_requests' = Append(q_requests,
                            RunQueryRequest(ProjectName, Unwrap(q_cur_query),
                                            q_cursor, q_tx))
    /\ q_pc' = "wait"
    /\ UNCHANGED <<q_query, q_tx, q_cur_query, q_cursor, q_output, q_result, q_pages>>
    /\ UNCHANGED not_query

\* construct_request fails: the error is returned, nothing is sent
QueryTokenFail ==
    /\ q_pc = "loop"
    /\ q_pc' = "err"
    /\ q_result' = Some([ok |-> FALSE, err |-> "token"])
    /\ UNCHANGED <<q_query, q_tx, q_cur_query, q_cursor, q_output, q_requests, q_pages>>
    /\ UNCHANGED not_query

\* a failed run_query after which the loop goes round again
QueryRpcFail_Retry ==
    /\ q_pc = "wait"
    /\ q_pc' = "loop"
    /\ UNCHANGED <<q_query, q_tx, q_cur_query, q_cursor, q_output, q_result,
                   q_requests, q_pages>>
    /\ UNCHANGED not_query

\* run_query fails: the error is returned
QueryRpcFail ==
    /\ q_pc = "wait"
    /\ q_pc' = "err"
    /\ q_result' = Some([ok |-> FALSE, err |-> "transport"])
    /\ UNCHANGED <<q_query, q_tx, q_cur_query, q_cursor, q_output, q_requests, q_pages>>
    /\ UNCHANGED not_query

\* a response without a batch: batch.unwrap() panics
QueryNoBatch ==
    /\ q_pc = "wait"
    /\ q_pc' = "panic"
    /\ UNCHANGED <<q_query, q_tx, q_cur_query, q_cursor, q_output, q_result,
                   q_requests, q_pages>>
    /\ UNCHANGED not_query

\* a response batch arrives
QueryRecv(results) ==
    /\ q_pc = "wait"
    /\ Len(q_requests) >= MaxPages => results.more_results # "NotFinished"
    /\ q_pages' = Append(q_pages, results)
    /\ LET output == QueryExtend(q_output, results.entity_results)
       IN /\ q_output' = output
          /\ IF QueryHalts(results.more_results)
             THEN /\ q_pc' = "done"
                  /\ q_result' = Some([ok |-> TRUE, entities |-> output,
                                       cursor |-> results.end_cursor])
                  /\ UNCHANGED <<q_cur_query, q_cursor>>
             ELSE /\ q_pc' = "loop"
                  /\ q_cur_query' = q_query
                  /\ q_cursor' = results.end_cursor
                  /\ UNCHANGED q_result
    /\ UNCHANGED <<q_query, q_tx, q_requests>>
    /\ UNCHANGED not_query

Batches ==
    [entity_results : PageEntityResults, more_results : MoreResultsTypes,
     end_cursor : EndCursors]

\* the batches of the runs whose termination is checked: at most one entity
\* a page, one end cursor
LiveBatches ==
    {results \in Batches :
        Len(results.entity_results) <= 1 /\ results.end_cursor = <<1>>}

(***************************************************************************)
(* Client::get_all_run                                                     *)
(***************************************************************************)

LookupRequest(project_name, keys, tx_id) ==
    [keys |-> keys,
     database_id |-> "",
     project_id |-> project_name,
     read_options |-> IF IsSome(tx_id)
                      THEN Some([consistency_type |->
                                    Some([tag |-> "Transaction", tx |-> Unwrap(tx_id)])])
                      ELSE None]

\* HashMap::extend with the (key, properties) of each found entity; a later
\* entry for the same key replaces an earlier one
RECURSIVE FoundExtend(_, _)
FoundExtend(found, results) ==
    IF results = <<>> THEN found
    ELSE LET entity == Entity_from(Unwrap(Head(results).entity))
         IN FoundExtend((entity.key :> entity.properties) @@ found, Tail(results))

\* a traversal of og_keys from its last key to its first
RECURSIVE TakeFound_Backwards(_, _)
TakeFound_Backwards(og_keys, found) ==
    IF og_keys = <<>> THEN <<>>
    ELSE LET key == og_keys[Len(og_keys)]
             front == SubSeq(og_keys, 1, Len(og_keys) - 1)
         IN IF key \in DOMAIN found
            THEN <<found[key]>> \o
                 TakeFound_Backwards(front, [k \in DOMAIN found \ {key} |-> found[k]])
            ELSE TakeFound_Backwards(front, found)

\* og_keys.into_iter().flat_map(|key| found.remove(key.borrow())): the value
\* of each key is taken out of the map the first time the key comes up
RECURSIVE TakeFound(_, _)
TakeFound(og_keys, found) ==
    IF og_keys = <<>> THEN <<>>
    ELSE LET key == Head(og_keys)
         IN IF key \in DOMAIN found
            THEN <<found[key]>> \o
                 TakeFound(Tail(og_keys),
                           [k \in DOMAIN found \ {key} |-> found[k]])
            ELSE TakeFound(Tail(og_keys), found)

\* FromValue::from_value for the type the caller asked for
from_value(ty, value) ==
    IF ty = "Value" THEN [ok |-> TRUE, value |-> value]
    ELSE IF value.tag # "EntityValue"
         THEN [ok |-> FALSE, err |-> "UnexpectedPropertyType"]
         ELSE IF s_b \in DOMAIN value.props
              THEN [ok |-> TRUE, value |-> [b |-> value.props[s_b]]]
              ELSE [ok |-> FALSE, err |-> "MissingProperty"]

\* .map(FromValue::from_value).collect::<Result<Vec<_>, _>>(): the first
\* error, or all the decoded values
RECURSIVE CollectDecoded(_, _)
CollectDecoded(ty, values) ==
    IF values = <<>> THEN [ok |-> TRUE, values |-> <<>>]
    ELSE LET first == from_value(ty, Head(values))
         IN IF ~first.ok THEN first
            ELSE LET rest == CollectDecoded(ty, Tail(values))
                 IN IF ~rest.ok THEN rest
                    ELSE [ok |-> TRUE, values |-> <<first.value>> \o rest.values]

\* entry: og_keys, keys and found are set up
LookupRun(keys, tx_id) ==
    /\ l_pc = "idle"
    /\ l_pc' = "loop"
    /\ l_og_keys' = keys
    /\ l_tx' = tx_id
    /\ l_keys' = [i \in 1..Len(keys) |-> convert_key(ProjectName, keys[i])]
    /\ l_found' = <<>>
    /\ UNCHANGED <<l_result, l_requests, l_responses, l_store>>
    /\ UNCHANGED not_lookup

\* loop test true: the request is built, the token attached, and it is sent
LookupSend ==
    /\ l_pc = "loop"
    /\ l_keys # <<>>
    /\ l_requests' = Append(l_requests, LookupRequest(ProjectName, l_keys, l_tx))
    /\ l_pc' = "wait"
    /\ UNCHANGED <<l_og_keys, l_tx, l_keys, l_found, l_result, l_responses,
                   l_store>>
    /\ UNCHANGED not_lookup

\* construct_request fails: the error is returned, nothing is sent
LookupTokenFail ==
    /\ l_pc = "loop"
    /\ l_keys # <<>>
    /\ l_pc' = "err"
    /\ l_result' = Some([ok |-> FALSE, err |-> "token"])
    /\ UNCHANGED <<l_og_keys, l_tx, l_keys, l_found, l_requests, l_responses,
                   l_store>>
    /\ UNCHANGED not_lookup

\* a failed lookup that is tried again
LookupRpcFail_Retry ==
    /\ l_pc = "wait"
    /\ Len(l_requests) < MaxRounds + 2
    /\ l_pc' = "loop"
    /\ UNCHANGED <<l_og_keys, l_tx, l_keys, l_found, l_result, l_requests, l_responses,
                   l_store>>
    /\ UNCHANGED not_lookup

\* lookup fails: the error is returned
LookupRpcFail ==
    /\ l_pc = "wait"
    /\ l_pc' = "err"
    /\ l_result' = Some([ok |-> FALSE, err |-> "transport"])
    /\ UNCHANGED <<l_og_keys, l_tx, l_keys, l_found, l_requests, l_responses,
                   l_store>>
    /\ UNCHANGED not_lookup

\* The server's answer to a request when it defers the keys at the positions
\* in deferred: the stored entities of the other keys, listed in request
\* order or (rev) in the opposite order, and the deferred keys.
ServerAnswer(request, deferred, rev) ==
    LET answered == SelectSeq([i \in 1..Len(request.keys) |->
                                    [pos |-> i, key |-> Key_from(request.keys[i])]],
                              LAMBDA e : e.pos \notin deferred /\ e.key \in l_store)
        found == [i \in 1..Len(answered) |->
                    [entity |-> Some(StoredEntity(answered[i].key))]]
        put_off == SelectSeq([i \in 1..Len(request.keys) |->
                                    [pos |-> i, key |-> request.keys[i]]],
                             LAMBDA e : e.pos \in deferred)
    IN [found |-> IF rev THEN Reverse(found) ELSE found,
        deferred |-> [i \in 1..Len(put_off) |-> put_off[i].key]]

\* a loop that asks again for the keys it just asked for
NextKeys_Same(keys, response) == keys

\* keys = response.deferred
NextKeys(keys, response) == response.deferred

\* a response arrives: the server defers the keys at the positions in
\* deferred and lists what it found in request order or (rev) reversed
LookupRecv(deferred, rev) ==
    /\ l_pc = "wait"
    /\ Len(l_requests) >= MaxRounds => deferred = {}
    /\ LET response == ServerAnswer(l_requests[Len(l_requests)], deferred, rev)
       IN /\ l_responses' = Append(l_responses, response)
          /\ l_found' = FoundExtend(l_found, response.found)
          /\ l_keys' = NextKeys(l_keys, response)
    /\ l_pc' = "loop"
    /\ UNCHANGED <<l_og_keys, l_tx, l_result, l_requests, l_store>>
    /\ UNCHANGED not_lookup

\* loop test false: the values are taken out in the order of og_keys and
\* decoded into the type T of the call (ty), which nothing before this
\* point depends on
LookupFinish(ty) ==
    /\ l_pc = "loop"
    /\ l_keys = <<>>
    /\ LET values == CollectDecoded(ty, TakeFound(l_og_keys, l_found))
       IN /\ l_result' = Some(values @@ [ty |-> ty])
          /\ l_pc' = IF values.ok THEN "done" ELSE "err"
    /\ UNCHANGED <<l_og_keys, l_tx, l_keys, l_found, l_requests, l_responses,
                   l_store>>
    /\ UNCHANGED not_lookup

(***************************************************************************)
(* Client::put_all, Client::delete_all and Transaction                     *)
(***************************************************************************)

\* items.into_iter().map(IntoEntity::into_entity).collect::<Result<_, _>>():
\* the first error, or all the entities
RECURSIVE CollectEntities(_)
CollectEntities(items) ==
    IF items = <<>> THEN [ok |-> TRUE, entities |-> <<>>]
    ELSE IF ~Head(items).ok THEN [ok |-> FALSE, err |-> Head(items).err]
         ELSE LET rest == CollectEntities(Tail(items))
              IN IF ~rest.ok THEN rest
                 ELSE [ok |-> TRUE, entities |-> <<Head(items).entity>> \o rest.entities]

Mutation(tag, payload) ==
    [operation |-> Some([tag |-> tag, payload |-> payload]),
     conflict_detection_strategy |-> None]

\* the closure of Client::put_all
ClientPutMutation(client, entity) ==
    LET is_incomplete_ == entity.key.is_new \/ is_incomplete(entity.key)
        wire == convert_entity(client.project_name, entity, client.index_excluded)
    IN Mutation(IF is_incomplete_ THEN "Insert" ELSE "Upsert", wire)

\* a classification that looks at the new mark only
TxPutMutation_NewOnly(client, entity) ==
    LET wire == convert_entity(client.project_name, entity, client.index_excluded)
    IN Mutation(IF entity.key.is_new THEN "Insert" ELSE "Upsert", wire)

\* the closure of Transaction::put_all
TxPutMutation(client, entity) ==
    LET is_incomplete_ == entity.key.is_new \/ is_incomplete(entity.key)
        wire == convert_entity(client.project_name, entity, client.index_excluded)
    IN Mutation(IF is_incomplete_ THEN "Insert" ELSE "Upsert", wire)

\* the closure of Client::delete_all
ClientDeleteMutation(client, key) ==
    Mutation("Delete", convert_key(client.project_name, key))

\* the closure of Transaction::delete_all
TxDeleteMutation(client, key) ==
    Mutation("Delete", convert_key(client.project_name, key))

\* a list that grows at its front
AppendMutations_Front(pending, mutations) == mutations \o pending

\* self.commit_request.mutations.append(&mut mutations.to_vec())
AppendMutations(pending, mutations) == pending \o mutations

\* whether building the mutations of these entities panics in convert_entity
Panics(client, entities) ==
    \E i \in 1..Len(entities) :
        convert_entity(client.project_name, entities[i], client.index_excluded) = Panic

\* the CommitRequest of Client::put_all and Client::delete_all
NonTransactionalCommit(client, mutations) ==
    [mutations |-> mutations,
     mode |-> "NonTransactional",
     transaction_selector |-> None,
     database_id |-> "",
     project_id |-> client.project_name]

\* a transaction whose commit request is not transactional
Transaction_new_NonTransactional(client, tx_key) ==
    [client |-> client,
     tx_key |-> tx_key,
     commit_request |-> NonTransactionalCommit(client, <<>>)]

\* a transaction whose client starts from an empty policy
Transaction_new_FreshPolicy(client, tx_key) ==
    [client |-> [client EXCEPT !.index_excluded = NoIndexExcluded],
     tx_key |-> tx_key,
     commit_request |->
        [mutations |-> <<>>,
         mode |-> "Transactional",
         transaction_selector |-> Some([tag |-> "Transaction", tx |-> tx_key]),
         database_id |-> "",
         project_id |-> client.project_name]]

\* Transaction::new
Transaction_new(client, tx_key) ==
    [client |-> client,
     tx_key |-> tx_key,
     commit_request |->
        [mutations |-> <<>>,
         mode |-> "Transactional",
         transaction_selector |-> Some([tag |-> "Transaction", tx |-> tx_key]),
         database_id |-> "",
         project_id |-> client.project_name]]

\* The keys a commit response reports: for each mutation the key the server
\* generated, when the key sent was incomplete, and none otherwise.
GeneratedId == 99

CommitResultKeys(request) ==
    [i \in 1..Len(request.mutations) |->
        LET op == Unwrap(request.mutations[i].operation)
            wire_key == IF op.tag = "Delete" THEN op.payload ELSE Unwrap(op.payload.key)
            last == wire_key.path[Len(wire_key.path)]
        IN IF op.tag # "Delete" /\ last.id_type = None
           THEN Some(Key_from([wire_key EXCEPT
                    !.path[Len(wire_key.path)].id_type =
                        Some([tag |-> "Id", id |-> GeneratedId])]))
           ELSE None]

Call(op, args, result) == [op |-> op, args |-> args, result |-> result]
Err(e) == [ok |-> FALSE, err |-> e]
Ok(v) == [ok |-> TRUE, value |-> v]

\* the first key of the Vec<Option<Key>> that put_all returns, None for an
\* empty Vec: result.into_iter().next().flatten()
FirstKey(keys) == IF keys = <<>> THEN None ELSE keys[1]

\* A call that is suspended at an await: the operation, its arguments, the
\* commit request it built (None for a call that sends no commit request)
\* and the await it is suspended at: "token" in construct_request, "rpc" in
\* the call of the service.
InFlight(op, args, request, at) ==
    [op |-> op, args |-> args, request |-> request, at |-> at]

\* Client::new_transaction up to its first await: the BeginTransactionRequest
\* is built.  The call borrows the Client mutably, as every call on the
\* Client does, so no other call on the Client is suspended.
NewTransaction ==
    /\ w_pc = "run"
    /\ w_call = None
    /\ w_ncalls < MaxCalls
    /\ w_ncalls' = w_ncalls + 1
    /\ w_call' = Some(InFlight("new_transaction", <<>>, None, "token"))
    /\ UNCHANGED <<w_pc, w_client, w_tx, w_supplied, w_last, w_sent, w_nsent, w_txcall>>
    /\ UNCHANGED not_write

\* The body shared by Client::put and Client::put_all, up to its first
\* await: the entities are collected, the mutations and the commit request
\* built.
ClientPutBody(op, items) ==
    LET collected == CollectEntities(items)
    IN /\ w_pc = "run"
       /\ w_call = None
       /\ w_ncalls < MaxCalls
       /\ w_ncalls' = w_ncalls + 1
       /\ IF ~collected.ok
          THEN /\ w_last' = Some(Call(op, items, Err(collected.err)))
               /\ UNCHANGED <<w_pc, w_call>>
          ELSE IF Panics(w_client, collected.entities)
          THEN /\ w_pc' = "panic"
               /\ w_last' = Some(Call(op, items, Panic))
               /\ UNCHANGED w_call
          ELSE LET mutations == [i \in 1..Len(collected.entities) |->
                                    ClientPutMutation(w_client, collected.entities[i])]
                   request == NonTransactionalCommit(w_client, mutations)
               IN /\ w_call' = Some(InFlight(op, items, Some(request), "token"))
                  /\ UNCHANGED <<w_pc, w_last>>
       /\ UNCHANGED <<w_client, w_tx, w_supplied, w_sent, w_nsent, w_txcall>>
       /\ UNCHANGED not_write

ClientPut(item) == ClientPutBody("Client::put", <<item>>)

ClientPutAll(items) == ClientPutBody("Client::put_all", items)

\* The body shared by Client::delete and Client::delete_all, up to its
\* first await
ClientDeleteBody(op, keys) ==
    LET mutations == [i \in 1..Len(keys) |-> ClientDeleteMutation(w_client, keys[i])]
        request == NonTransactionalCommit(w_client, mutations)
    IN /\ w_pc = "run"
       /\ w_call = None
       /\ w_ncalls < MaxCalls
       /\ w_ncalls' = w_ncalls + 1
       /\ w_call' = Some(InFlight(op, keys, Some(request), "token"))
       /\ UNCHANGED <<w_pc, w_client, w_tx, w_supplied, w_last, w_sent, w_nsent,
                      w_txcall>>
       /\ UNCHANGED not_write

ClientDelete(key) == ClientDeleteBody("Client::delete", <<key>>)

ClientDeleteAll(keys) == ClientDeleteBody("Client::delete_all", keys)

\* what a call that got its response returns
ResultOf(call, outcome, tx_key) ==
    IF outcome # "ok" THEN Err(outcome)
    ELSE CASE call.op = "new_transaction" -> Ok(tx_key)
           [] call.op = "Client::put" ->
                Ok(FirstKey(CommitResultKeys(Unwrap(call.request))))
           [] call.op \in {"Client::put_all", "Transaction::commit"} ->
                Ok(CommitResultKeys(Unwrap(call.request)))
           [] OTHER -> Ok(<<>>)

\* construct_request resolves for the suspended call: without a token the
\* call returns the error; with one the request goes to the service, and
\* the call is suspended until the response.
ConstructRequest(call, outcome) ==
    /\ call.at = "token"
    /\ IF outcome = "token"
       THEN /\ w_last' = Some(Call(call.op, call.args, Err(outcome)))
            /\ UNCHANGED <<w_sent, w_nsent>>
       ELSE /\ IsSome(call.request) => w_nsent < MaxCommits
            /\ IF IsSome(call.request)
               THEN /\ w_sent' = call.request
                    /\ w_nsent' = w_nsent + 1
               ELSE UNCHANGED <<w_sent, w_nsent>>
            /\ UNCHANGED w_last

\* the second poll of a call on the Client
ClientToken(outcome) ==
    /\ w_pc = "run"
    /\ IsSome(w_call)
    /\ ConstructRequest(Unwrap(w_call), outcome)
    /\ w_call' = IF outcome = "token" THEN None
                 ELSE Some([Unwrap(w_call) EXCEPT !.at = "rpc"])
    /\ UNCHANGED <<w_pc, w_client, w_tx, w_supplied, w_txcall, w_ncalls>>
    /\ UNCHANGED not_write

\* The last poll of a call on the Client: the service answers or fails, and
\* the call returns.  new_transaction returns a Transaction made by
\* Transaction::new from a clone of the Client; the caller keeps it in place
\* of the one it had, which ends a call suspended on that one.
ClientResponse(outcome, tx_key) ==
    /\ w_pc = "run"
    /\ IsSome(w_call)
    /\ Unwrap(w_call).at = "rpc"
    /\ LET call == Unwrap(w_call)
       IN /\ w_last' = Some(Call(call.op, call.args, ResultOf(call, outcome, tx_key)))
          /\ IF call.op = "new_transaction" /\ outcome = "ok"
             THEN /\ w_tx' = Some(Transaction_new(w_client, tx_key))
                  /\ w_supplied' = <<>>
                  /\ w_txcall' = None
             ELSE UNCHANGED <<w_tx, w_supplied, w_txcall>>
    /\ w_call' = None
    /\ UNCHANGED <<w_pc, w_client, w_sent, w_nsent, w_ncalls>>
    /\ UNCHANGED not_write

\* the future of a call on the Client is dropped before it returned
ClientDrop ==
    /\ w_pc = "run"
    /\ IsSome(w_call)
    /\ w_call' = None
    /\ UNCHANGED <<w_pc, w_client, w_tx, w_supplied, w_last, w_sent, w_nsent,
                   w_txcall, w_ncalls>>
    /\ UNCHANGED not_write

\* the entities of the items before the first one that fails
RECURSIVE LeadingEntities(_)
LeadingEntities(items) ==
    IF items = <<>> \/ ~Head(items).ok THEN <<>>
    ELSE <<Head(items).entity>> \o LeadingEntities(Tail(items))

\* a put_all that queues the items one by one until one of them fails
TxPutBody_Partial(op, items) ==
    LET tx == Unwrap(w_tx)
        collected == CollectEntities(items)
        entities == LeadingEntities(items)
    IN /\ w_pc = "run"
       /\ IsSome(w_tx)
       /\ w_txcall = None
       /\ w_ncalls < MaxCalls
       /\ w_ncalls' = w_ncalls + 1
       /\ Len(tx.commit_request.mutations) + Len(items) <= MaxPending
       /\ IF Panics(tx.client, entities)
          THEN /\ w_pc' = "panic"
               /\ w_last' = Some(Call(op, <<>>, Panic))
               /\ UNCHANGED <<w_tx, w_supplied>>
          ELSE LET mutations == [i \in 1..Len(entities) |->
                                    TxPutMutation(tx.client, entities[i])]
               IN /\ w_tx' = Some([tx EXCEPT !.commit_request.mutations =
                                        AppendMutations(@, mutations)])
                  /\ w_supplied' = w_supplied \o
                        [i \in 1..Len(entities) |-> [op |-> "put", entity |-> entities[i]]]
                  /\ w_last' = Some(Call(op, <<>>, IF collected.ok THEN Ok(<<>>)
                                                   ELSE Err(collected.err)))
                  /\ UNCHANGED w_pc
       /\ UNCHANGED <<w_client, w_sent, w_nsent, w_call, w_txcall>>
       /\ UNCHANGED not_write

\* The body shared by Transaction::put and Transaction::put_all: the
\* entities are collected, the mutations built and appended to the
\* transaction's commit request.  Nothing is awaited but the body itself.
\* The call borrows the Transaction mutably, as every call on it does, so
\* no other call on the Transaction is suspended.
TxPutBody(op, items) ==
    LET tx == Unwrap(w_tx)
        collected == CollectEntities(items)
    IN /\ w_pc = "run"
       /\ IsSome(w_tx)
       /\ w_txcall = None
       /\ w_ncalls < MaxCalls
       /\ w_ncalls' = w_ncalls + 1
       /\ Len(tx.commit_request.mutations) + Len(items) <= MaxPending
       /\ IF ~collected.ok
          THEN /\ w_last' = Some(Call(op, <<>>, Err(collected.err)))
               /\ UNCHANGED <<w_pc, w_tx, w_supplied>>
          ELSE IF Panics(tx.client, collected.entities)
          THEN /\ w_pc' = "panic"
               /\ w_last' = Some(Call(op, <<>>, Panic))
               /\ UNCHANGED <<w_tx, w_supplied>>
          ELSE LET mutations == [i \in 1..Len(collected.entities) |->
                                    TxPutMutation(tx.client, collected.entities[i])]
               IN /\ w_tx' = Some([tx EXCEPT !.commit_request.mutations =
                                        AppendMutations(@, mutations)])
                  /\ w_supplied' = w_supplied \o
                        [i \in 1..Len(collected.entities) |->
                            [op |-> "put", entity |-> collected.entities[i]]]
                  /\ w_last' = Some(Call(op, <<>>, Ok(<<>>)))
                  /\ UNCHANGED w_pc
       /\ UNCHANGED <<w_client, w_sent, w_nsent, w_call, w_txcall>>
       /\ UNCHANGED not_write

TxPut(item) == TxPutBody("Transaction::put", <<item>>)

TxPutAll(items) == TxPutBody("Transaction::put_all", items)

\* The body shared by Transaction::delete and Transaction::delete_all
TxDeleteBody(op, keys) ==
    LET tx == Unwrap(w_tx)
        mutations == [i \in 1..Len(keys) |-> TxDeleteMutation(tx.client, keys[i])]
    IN /\ w_pc = "run"
       /\ IsSome(w_tx)
       /\ w_txcall = None
       /\ w_ncalls < MaxCalls
       /\ w_ncalls' = w_ncalls + 1
       /\ Len(tx.commit_request.mutations) + Len(keys) <= MaxPending
       /\ w_tx' = Some([tx EXCEPT !.commit_request.mutations =
                            AppendMutations(@, mutations)])
       /\ w_supplied' = w_supplied \o
                [i \in 1..Len(keys) |-> [op |-> "delete", key |-> keys[i]]]
       /\ w_last' = Some(Call(op, <<>>, Ok(<<>>)))
       /\ UNCHANGED <<w_pc, w_client, w_sent, w_nsent, w_call, w_txcall>>
       /\ UNCHANGED not_write

TxDelete(key) == TxDeleteBody("Transaction::delete", <<key>>)

TxDeleteAll(keys) == TxDeleteBody("Transaction::delete_all", keys)

\* a commit that takes the mutations out of the transaction as it copies
\* them into its request
TxCommit_Drains ==
    LET tx == Unwrap(w_tx)
    IN /\ w_pc = "run"
       /\ IsSome(w_tx)
       /\ w_txcall = None
       /\ w_ncalls < MaxCalls
       /\ w_ncalls' = w_ncalls + 1
       /\ w_txcall' = Some(InFlight("Transaction::commit", <<>>,
                                    Some(tx.commit_request), "token"))
       /\ w_tx' = Some([tx EXCEPT !.commit_request.mutations = <<>>])
       /\ UNCHANGED <<w_pc, w_client, w_supplied, w_last, w_sent, w_nsent, w_call>>
       /\ UNCHANGED not_write

\* Transaction::commit up to its first await: the commit request, as
\* accumulated, is copied for sending
TxCommit ==
    LET tx == Unwrap(w_tx)
    IN /\ w_pc = "run"
       /\ IsSome(w_tx)
       /\ w_txcall = None
       /\ w_ncalls < MaxCalls
       /\ w_ncalls' = w_ncalls + 1
       /\ w_txcall' = Some(InFlight("Transaction::commit", <<>>,
                                    Some(tx.commit_request), "token"))
       /\ UNCHANGED <<w_pc, w_client, w_tx, w_supplied, w_last, w_sent, w_nsent,
                      w_call>>
       /\ UNCHANGED not_write

\* Transaction::rollback up to its first await: the RollbackRequest is built
TxRollback ==
    /\ w_pc = "run"
    /\ IsSome(w_tx)
    /\ w_txcall = None
    /\ w_ncalls < MaxCalls
    /\ w_ncalls' = w_ncalls + 1
    /\ w_txcall' = Some(InFlight("Transaction::rollback", <<>>, None, "token"))
    /\ UNCHANGED <<w_pc, w_client, w_tx, w_supplied, w_last, w_sent, w_nsent, w_call>>
    /\ UNCHANGED not_write

\* the second poll of a commit or rollback
TxToken(outcome) ==
    /\ w_pc = "run"
    /\ IsSome(w_txcall)
    /\ ConstructRequest(Unwrap(w_txcall), outcome)
    /\ w_txcall' = IF outcome = "token" THEN None
                   ELSE Some([Unwrap(w_txcall) EXCEPT !.at = "rpc"])
    /\ UNCHANGED <<w_pc, w_client, w_tx, w_supplied, w_call, w_ncalls>>
    /\ UNCHANGED not_write

\* the last poll of a commit or rollback: the service answers or fails, and
\* the call returns
TxResponse(outcome) ==
    /\ w_pc = "run"
    /\ IsSome(w_txcall)
    /\ Unwrap(w_txcall).at = "rpc"
    /\ LET call == Unwrap(w_txcall)
       IN w_last' = Some(Call(call.op, call.args, ResultOf(call, outcome, <<>>)))
    /\ w_txcall' = None
    /\ UNCHANGED <<w_pc, w_client, w_tx, w_supplied, w_sent, w_nsent, w_call, w_ncalls>>
    /\ UNCHANGED not_write

\* the future of a commit or rollback is dropped before it returned
TxDrop ==
    /\ w_pc = "run"
    /\ IsSome(w_txcall)
    /\ w_txcall' = None
    /\ UNCHANGED <<w_pc, w_client, w_tx, w_supplied, w_last, w_sent, w_nsent,
                   w_call, w_ncalls>>
    /\ UNCHANGED not_write

(***************************************************************************)
(* Calls of the conversion functions                                       *)
(***************************************************************************)

\* A run makes one call: the inputs to choose from, none once it is made
Fresh(inputs) == IF c_fn = "none" THEN inputs ELSE {}

GetExcludeFromIndexes(list_excluded, property) ==
    /\ c_fn = "none"
    /\ c_fn' = "get_exclude_from_indexes"
    /\ c_args' = <<list_excluded, property>>
    /\ c_result' = get_exclude_from_indexes(list_excluded, property)
    /\ UNCHANGED not_convert

CkeckValue(self, kind, property) ==
    /\ c_fn = "none"
    /\ c_fn' = "ckeck_value"
    /\ c_args' = <<self, kind, property>>
    /\ c_result' = ckeck_value(self, kind, property)
    /\ UNCHANGED not_convert

CheckExcludeFromIndexes(list_excluded) ==
    /\ c_fn = "none"
    /\ c_fn' = "check_exclude_from_indexes"
    /\ c_args' = <<list_excluded>>
    /\ c_result' = check_exclude_from_indexes(list_excluded)
    /\ UNCHANGED not_convert

ConvertEntity(entity, index_excluded) ==
    /\ c_fn = "none"
    /\ c_fn' = "convert_entity"
    /\ c_args' = <<ProjectName, entity, index_excluded>>
    /\ c_result' = convert_entity(ProjectName, entity, index_excluded)
    /\ UNCHANGED not_convert

ConvertValue(value, path_excluded, index_excluded) ==
    /\ c_fn = "none"
    /\ c_fn' = "convert_value"
    /\ c_args' = <<ProjectName, value, path_excluded, index_excluded>>
    /\ c_result' = convert_value(ProjectName, value, path_excluded, index_excluded)
    /\ UNCHANGED not_convert

ConvertKey(key) ==
    /\ c_fn = "none"
    /\ c_fn' = "convert_key"
    /\ c_args' = <<ProjectName, key>>
    /\ c_result' = convert_key(ProjectName, key)
    /\ UNCHANGED not_convert

ConvertFilter(filters, composite_filter) ==
    /\ c_fn = "none"
    /\ c_fn' = "convert_filter"
    /\ c_args' = <<ProjectName, filters, composite_filter>>
    /\ c_result' = convert_filter(ProjectName, filters, composite_filter)
    /\ UNCHANGED not_convert

(***************************************************************************)
(* Client::aggregation_query_run                                           *)
(***************************************************************************)

\* Count { up_to: Some(1000) }
CountUpTo == 1000

\* a translation that counts without an upper bound
AggregationOf_Unbounded(aggr) ==
    CASE aggr.tag = "Count" ->
            [operator |-> Some([tag |-> "Count", up_to |-> None]),
             alias |-> aggr.alias]
      [] aggr.tag = "Sum" ->
            [operator |-> Some([tag |-> "Sum",
                                property |-> Some(PropertyReferenceOf(aggr.property))]),
             alias |-> aggr.alias]
      [] aggr.tag = "Avg" ->
            [operator |-> Some([tag |-> "Avg",
                                property |-> Some(PropertyReferenceOf(aggr.property))]),
             alias |-> aggr.alias]

\* the closure that maps an Aggregation to its wire message
AggregationOf(aggr) ==
    CASE aggr.tag = "Count" ->
            [operator |-> Some([tag |-> "Count", up_to |-> Some(CountUpTo)]),
             alias |-> aggr.alias]
      [] aggr.tag = "Sum" ->
            [operator |-> Some([tag |-> "Sum",
                                property |-> Some(PropertyReferenceOf(aggr.property))]),
             alias |-> aggr.alias]
      [] aggr.tag = "Avg" ->
            [operator |-> Some([tag |-> "Avg",
                                property |-> Some(PropertyReferenceOf(aggr.property))]),
             alias |-> aggr.alias]

RunAggregationQueryRequest(project_name, aggregations, query, tx_id) ==
    LET cur_query == query
        cursor == IF IsSome(query.cursor) THEN Unwrap(query.cursor) ELSE <<>>
        api_query == convert_query(project_name, cur_query, cursor)
    IN [partition_id |-> Some([database_id |-> "",
                               project_id |-> project_name,
                               namespace_id |-> IF IsSome(cur_query.namespace)
                                                THEN Unwrap(cur_query.namespace)
                                                ELSE ""]),
        query_type |->
            Some([tag |-> "AggregationQuery",
                  aggregation_query |->
                    [aggregations |-> [i \in 1..Len(aggregations) |->
                                          AggregationOf(aggregations[i])],
                     query_type |-> Some([tag |-> "NestedQuery",
                                          nested_query |-> api_query])]]),
        read_options |-> QueryReadOptions(cur_query, tx_id),
        database_id |-> "",
        project_id |-> project_name]

\* the Values returned for the aggregation results of a batch
AggregationValues(aggregation_results) ==
    [i \in 1..Len(aggregation_results) |->
        EntityValue([k \in DOMAIN aggregation_results[i].aggregate_properties |->
            Value_from(Unwrap(aggregation_results[i].aggregate_properties[k].value_type))])]

\* the answers to choose from while the call is suspended, none otherwise
Suspended(answers) ==
    IF c_fn = "aggregation_query_run" /\ "at" \in DOMAIN c_result THEN answers ELSE {}

\* Client::aggregation_query_run up to its first await: the request is
\* built, and the call is suspended in construct_request.  Until the call
\* returns, c_result holds the await it is suspended at and the request, once
\* it is with the service.
AggregationQueryRun(aggregations, query, tx_id) ==
    /\ c_fn = "none"
    /\ c_fn' = "aggregation_query_run"
    /\ c_args' = <<aggregations, query, tx_id>>
    /\ c_result' = [at |-> "token", request |-> None]
    /\ UNCHANGED not_convert

\* construct_request resolves: without a token the call returns the error;
\* with one the request is handed to the service, and the call is suspended
\* in run_aggregation_query
AggregationToken(outcome) ==
    LET request == RunAggregationQueryRequest(ProjectName, c_args[1], c_args[2], c_args[3])
    IN /\ c_fn = "aggregation_query_run"
       /\ "at" \in DOMAIN c_result
       /\ c_result.at = "token"
       /\ c_result' =
            IF outcome = "token" THEN [request |-> None, returned |-> Err("token")]
            ELSE [at |-> "rpc", request |-> Some(request)]
       /\ UNCHANGED <<c_fn, c_args>>
       /\ UNCHANGED not_convert

\* run_aggregation_query resolves, and the call returns: the error, the panic
\* of batch.unwrap() on a response without a batch, or the Values of the
\* aggregation results of the batch
AggregationResponse(outcome, aggregation_results) ==
    /\ c_fn = "aggregation_query_run"
    /\ "at" \in DOMAIN c_result
    /\ c_result.at = "rpc"
    /\ outcome # "ok" => aggregation_results = <<>>
    /\ c_result' =
        CASE outcome = "transport" ->
                [request |-> c_result.request, returned |-> Err("transport")]
          [] outcome = "nobatch" ->
                [request |-> c_result.request, returned |-> Panic]
          [] outcome = "ok" ->
                [request |-> c_result.request,
                 response |-> aggregation_results,
                 returned |-> Ok(AggregationValues(aggregation_results))]
    /\ UNCHANGED <<c_fn, c_args>>
    /\ UNCHANGED not_convert

\* the future of the call is dropped at an await: the call never returns
AggregationDrop ==
    /\ c_fn = "aggregation_query_run"
    /\ "at" \in DOMAIN c_result
    /\ c_result.at \in {"token", "rpc"}
    /\ c_result' = [at |-> "dropped", request |-> c_result.request]
    /\ UNCHANGED <<c_fn, c_args>>
    /\ UNCHANGED not_convert

(***************************************************************************)
(* #[derive(FromValue)] for a struct (google-cloud-derive)                 *)
(***************************************************************************)

\* Values stand for the decoded field values: a decoded String is shown as
\* the StringValue that holds it, None as OptionValue(None), and so on.

\* the words of an identifier written in snake case
Words(ident) ==
    CASE ident = "last_name" -> <<"last", "name">>
      [] ident = "zip_code" -> <<"zip", "code">>
      [] OTHER -> <<ident>>

\* a word in capitals, for the words of the identifiers declared above
UpperWord(word) ==
    CASE word = "name" -> "NAME"
      [] word = "age" -> "AGE"
      [] word = "nick" -> "NICK"
      [] word = "active" -> "ACTIVE"
      [] word = "score" -> "SCORE"
      [] word = "tags" -> "TAGS"
      [] word = "born" -> "BORN"
      [] word = "last" -> "LAST"
      [] word = "zip" -> "ZIP"
      [] word = "code" -> "CODE"
      [] word = "level" -> "LEVEL"
      [] word = "full" -> "FULL"

\* a word with a capital first letter
CapitalWord(word) ==
    CASE word = "name" -> "Name"
      [] word = "age" -> "Age"
      [] word = "nick" -> "Nick"
      [] word = "active" -> "Active"
      [] word = "score" -> "Score"
      [] word = "tags" -> "Tags"
      [] word = "born" -> "Born"
      [] word = "last" -> "Last"
      [] word = "zip" -> "Zip"
      [] word = "code" -> "Code"
      [] word = "level" -> "Level"
      [] word = "full" -> "Full"

\* the words put together with a separator between them
RECURSIVE JoinWords(_, _)
JoinWords(words, separator) ==
    IF Len(words) = 1 THEN words[1]
    ELSE words[1] \o separator \o JoinWords(Tail(words), separator)

\* casing::transform_field_casing, on the identifiers declared above
transform_field_casing(ident, rename_all) ==
    LET words == Words(ident)
        upper == [i \in 1..Len(words) |-> UpperWord(words[i])]
        capital == [i \in 1..Len(words) |-> CapitalWord(words[i])]
    IN CASE rename_all = "LowerCase" -> JoinWords(words, "_")
         [] rename_all = "UpperCase" -> JoinWords(upper, "_")
         [] rename_all = "PascalCase" -> JoinWords(capital, "")
         [] rename_all = "CamelCase" -> JoinWords(<<words[1]>> \o Tail(capital), "")
         [] rename_all = "SnakeCase" -> JoinWords(words, "_")
         [] rename_all = "ScreamingSnakeCase" -> JoinWords(upper, "_")
         [] rename_all = "KebabCase" -> JoinWords(words, "-")
         [] rename_all = "ScreamingKebabCase" -> JoinWords(upper, "-")

field_name(field, rename_all) ==
    IF IsSome(field.rename) THEN Unwrap(field.rename)
    ELSE transform_field_casing(field.ident, rename_all)

is_ident(ty, ident) == Len(ty.path) = 1 /\ ty.path[1] = ident /\ ~ty.args

is_option_type(ty) == ty.path[1] = "Option"
is_string_type(ty) == is_ident(ty, "String")
is_bool_type(ty) == is_ident(ty, "bool")
is_i64_type(ty) == is_ident(ty, "i64")
is_f64_type(ty) == is_ident(ty, "f64")
is_vec_type(ty) == ty.path[1] = "Vec"
is_naivedatetime_type(ty) == ty.path[Len(ty.path)] = "NaiveDateTime"

\* FromValue::from_value of a field's type
FieldFromValue(ty, value) ==
    IF value = Undecodable
    THEN Err([tag |-> "UnexpectedPropertyType"])
    ELSE [ok |-> TRUE, value |-> value]

\* the binding generated for one field: props.remove(name), decoded when
\* present, and otherwise the substitute of the first branch that applies
assign_value(field, rename_all, props) ==
    LET name == field_name(field, rename_all)
    IN IF name \in DOMAIN props THEN FieldFromValue(field.ty, props[name])
       ELSE IF IsSome(field.default) THEN [ok |-> TRUE, value |-> Unwrap(field.default)]
       ELSE IF is_option_type(field.ty) THEN [ok |-> TRUE, value |-> OptionValue(None)]
       ELSE IF is_string_type(field.ty) THEN [ok |-> TRUE, value |-> StringValue("")]
       ELSE IF is_bool_type(field.ty) THEN [ok |-> TRUE, value |-> BooleanValue(FALSE)]
       ELSE IF is_i64_type(field.ty) THEN [ok |-> TRUE, value |-> IntegerValue(0)]
       ELSE IF is_f64_type(field.ty) THEN [ok |-> TRUE, value |-> DoubleValue(0)]
       ELSE IF is_vec_type(field.ty) THEN [ok |-> TRUE, value |-> ArrayValue(<<>>)]
       ELSE IF is_naivedatetime_type(field.ty)
            THEN [ok |-> TRUE, value |-> TimestampValue(0, 0)]
       ELSE Err([tag |-> "MissingProperty", name |-> name])

\* the bindings in field order: the first error returns.  A property that
\* was removed for one field is absent for the fields after it.
RECURSIVE field_bindings(_, _, _)
field_bindings(fields, rename_all, props) ==
    IF fields = <<>> THEN [ok |-> TRUE, value |-> <<>>]
    ELSE LET first == assign_value(Head(fields), rename_all, props)
             name == field_name(Head(fields), rename_all)
             left == [k \in DOMAIN props \ {name} |-> props[k]]
         IN IF ~first.ok THEN first
            ELSE LET rest == field_bindings(Tail(fields), rename_all, left)
                 IN IF ~rest.ok THEN rest
                    ELSE [ok |-> TRUE,
                          value |-> (Head(fields).ident :> first.value) @@ rest.value]

\* Value::type_name
type_name(value) == value.tag

\* the generated FromValue::from_value
derived_from_value(fields, rename_all, value) ==
    IF value.tag # "EntityValue"
    THEN Err([tag |-> "UnexpectedPropertyType", expected |-> "entity",
              got |-> type_name(value)])
    ELSE field_bindings(fields, rename_all, value.props)

\* the entities a record type is decoded from: each property absent, stored
\* with a value of the field's type, or stored with a value it cannot decode
StoredFor(fields, rename_all) ==
    LET names == {field_name(fields[i], rename_all) : i \in 1..Len(fields)}
        ty(name) == (CHOOSE i \in 1..Len(fields) :
                        field_name(fields[i], rename_all) = name)
    IN UNION {
        {EntityValue([name \in present |->
                        IF name \in bad THEN Undecodable
                        ELSE StoredAs(fields[ty(name)].ty)]) : bad \in SUBSET present}
        : present \in SUBSET names}

FromValue(fields, rename_all, value) ==
    /\ c_fn = "none"
    /\ c_fn' = "from_value"
    /\ c_args' = <<fields, rename_all, value>>
    /\ c_result' = derived_from_value(fields, rename_all, value)
    /\ UNCHANGED not_convert

(***************************************************************************)
(* Specifications                                                          *)
(***************************************************************************)

\* a client on which query_run is called
InitQuery ==
    /\ q_pc = "idle"
    /\ q_query = None
    /\ q_tx = None
    /\ q_cur_query = None
    /\ q_cursor = <<>>
    /\ q_output = <<>>
    /\ q_result = None
    /\ q_requests = <<>>
    /\ q_pages = <<>>
    /\ l_pc = "idle"
    /\ l_og_keys = <<>>
    /\ l_tx = None
    /\ l_keys = <<>>
    /\ l_found = <<>>
    /\ l_result = None
    /\ l_requests = <<>>
    /\ l_responses = <<>>
    /\ l_store = {}
    /\ w_pc = "run"
    /\ w_client = [project_name |-> ProjectName, index_excluded |-> NoIndexExcluded]
    /\ w_tx = None
    /\ w_supplied = <<>>
    /\ w_last = None
    /\ w_sent = None
    /\ w_nsent = 0
    /\ w_call = None
    /\ w_txcall = None
    /\ w_ncalls = 0
    /\ c_fn = "none"
    /\ c_args = <<>>
    /\ c_result = <<>>

NextQuery ==
    \/ \E query \in Queries, tx_id \in TxIds : QueryRun(query, tx_id)
    \/ QuerySend
    \/ QueryTokenFail
    \/ QueryRpcFail
    \/ QueryNoBatch
    \/ \E results \in Batches : QueryRecv(results)

SpecQuery == InitQuery /\ [][NextQuery]_vars

\* query_run under a scheduler that keeps polling the future and a channel
\* that resolves every call, with a response or with an error
NextQueryLive ==
    \/ \E query \in Queries, tx_id \in TxIds : QueryRun(query, tx_id)
    \/ QuerySend
    \/ QueryTokenFail
    \/ QueryRpcFail
    \/ QueryNoBatch
    \/ \E results \in LiveBatches : QueryRecv(results)

SpecQueryLive ==
    /\ InitQuery
    /\ [][NextQueryLive]_vars
    /\ WF_vars(QuerySend \/ QueryTokenFail)
    /\ WF_vars(QueryRpcFail \/ QueryNoBatch \/ \E results \in LiveBatches : QueryRecv(results))

\* a client on which get_all_run is called, and a server that stores
\* entities under some of the keys
InitLookup ==
    /\ q_pc = "idle"
    /\ q_query = None
    /\ q_tx = None
    /\ q_cur_query = None
    /\ q_cursor = <<>>
    /\ q_output = <<>>
    /\ q_result = None
    /\ q_requests = <<>>
    /\ q_pages = <<>>
    /\ l_pc = "idle"
    /\ l_og_keys = <<>>
    /\ l_tx = None
    /\ l_keys = <<>>
    /\ l_found = <<>>
    /\ l_result = None
    /\ l_requests = <<>>
    /\ l_responses = <<>>
    /\ l_store \in SUBSET LookupKeys
    /\ w_pc = "run"
    /\ w_client = [project_name |-> ProjectName, index_excluded |-> NoIndexExcluded]
    /\ w_tx = None
    /\ w_supplied = <<>>
    /\ w_last = None
    /\ w_sent = None
    /\ w_nsent = 0
    /\ w_call = None
    /\ w_txcall = None
    /\ w_ncalls = 0
    /\ c_fn = "none"
    /\ c_args = <<>>
    /\ c_result = <<>>

NextLookup ==
    \/ \E keys \in SeqsUpTo(LookupKeys, MaxKeys), tx_id \in TxIds :
            LookupRun(keys, tx_id)
    \/ LookupSend
    \/ LookupTokenFail
    \/ LookupRpcFail
    \/ \E deferred \in SUBSET (1..Len(l_keys)), rev \in BOOLEAN :
            LookupRecv(deferred, rev)
    \/ \E ty \in DecodeTypes : LookupFinish(ty)

SpecLookup == InitLookup /\ [][NextLookup]_vars

\* a client built with an index exclusion policy, alone or with a
\* Transaction made from it by Transaction::new; entities are written and
\* deleted directly and through the transaction the caller holds
InitWrite ==
    /\ q_pc = "idle"
    /\ q_query = None
    /\ q_tx = None
    /\ q_cur_query = None
    /\ q_cursor = <<>>
    /\ q_output = <<>>
    /\ q_result = None
    /\ q_requests = <<>>
    /\ q_pages = <<>>
    /\ l_pc = "idle"
    /\ l_og_keys = <<>>
    /\ l_tx = None
    /\ l_keys = <<>>
    /\ l_found = <<>>
    /\ l_result = None
    /\ l_requests = <<>>
    /\ l_responses = <<>>
    /\ l_store = {}
    /\ w_pc = "run"
    /\ w_client = [project_name |-> ProjectName, index_excluded |-> IndexPolicy]
    /\ w_tx \in {None} \cup {Some(Transaction_new(w_client, tx_key)) : tx_key \in TxKeys}
    /\ w_supplied = <<>>
    /\ w_last = None
    /\ w_sent = None
    /\ w_nsent = 0
    /\ w_call = None
    /\ w_txcall = None
    /\ w_ncalls = 0
    /\ c_fn = "none"
    /\ c_args = <<>>
    /\ c_result = <<>>

NextWrite ==
    \/ NewTransaction
    \/ \E item \in PutItems : ClientPut(item)
    \/ \E items \in PutLists : ClientPutAll(items)
    \/ \E key \in DeleteKeys : ClientDelete(key)
    \/ \E keys \in DeleteLists : ClientDeleteAll(keys)
    \/ \E outcome \in TokenOutcomes : ClientToken(outcome)
    \/ \E outcome \in ResponseOutcomes, tx_key \in TxKeys : ClientResponse(outcome, tx_key)
    \/ ClientDrop
    \/ \E item \in PutItems : TxPut(item)
    \/ \E items \in PutLists : TxPutAll(items)
    \/ \E key \in DeleteKeys : TxDelete(key)
    \/ \E keys \in DeleteLists : TxDeleteAll(keys)
    \/ TxCommit
    \/ TxRollback
    \/ \E outcome \in TokenOutcomes : TxToken(outcome)
    \/ \E outcome \in ResponseOutcomes : TxResponse(outcome)
    \/ TxDrop

SpecWrite == InitWrite /\ [][NextWrite]_vars

\* the writes of a run that only puts through a transaction
NextTxPut ==
    \/ NewTransaction
    \/ \E outcome \in TokenOutcomes : ClientToken(outcome)
    \/ \E outcome \in ResponseOutcomes, tx_key \in TxKeys : ClientResponse(outcome, tx_key)
    \/ ClientDrop
    \/ \E item \in PutItems : TxPut(item)
    \/ \E items \in SeqsUpTo(PutItems, MaxBatch) : TxPutAll(items)
    \/ TxCommit
    \/ TxRollback
    \/ \E outcome \in TokenOutcomes : TxToken(outcome)
    \/ \E outcome \in ResponseOutcomes : TxResponse(outcome)
    \/ TxDrop

SpecTxPut == InitWrite /\ [][NextTxPut]_vars

\* the conversion functions, each called once on an input
InitConvert ==
    /\ q_pc = "idle"
    /\ q_query = None
    /\ q_tx = None
    /\ q_cur_query = None
    /\ q_cursor = <<>>
    /\ q_output = <<>>
    /\ q_result = None
    /\ q_requests = <<>>
    /\ q_pages = <<>>
    /\ l_pc = "idle"
    /\ l_og_keys = <<>>
    /\ l_tx = None
    /\ l_keys = <<>>
    /\ l_found = <<>>
    /\ l_result = None
    /\ l_requests = <<>>
    /\ l_responses = <<>>
    /\ l_store = {}
    /\ w_pc = "run"
    /\ w_client = [project_name |-> ProjectName, index_excluded |-> NoIndexExcluded]
    /\ w_tx = None
    /\ w_supplied = <<>>
    /\ w_last = None
    /\ w_sent = None
    /\ w_nsent = 0
    /\ w_call = None
    /\ w_txcall = None
    /\ w_ncalls = 0
    /\ c_fn = "none"
    /\ c_args = <<>>
    /\ c_result = <<>>

NextConvert ==
    \/ \E list_excluded \in Fresh(PathLists), property \in Steps :
            GetExcludeFromIndexes(list_excluded, property)
    \/ \E self \in Fresh(Policies), kind \in Kinds, property \in Steps :
            CkeckValue(self, kind, property)
    \/ \E list_excluded \in Fresh(PathLists) : CheckExcludeFromIndexes(list_excluded)
    \/ \E entity \in Fresh(ConvertEntities), index_excluded \in ConvertPolicies :
            ConvertEntity(entity, index_excluded)
    \/ \E value \in Fresh(ConvertValues), path_excluded \in ValuePathLists,
          index_excluded \in BOOLEAN :
            ConvertValue(value, path_excluded, index_excluded)
    \/ \E key \in Fresh(ConvertKeys) : ConvertKey(key)
    \/ \E filters \in Fresh(FilterLists), composite_filter \in CompositeFilters :
            ConvertFilter(filters, composite_filter)

SpecConvert == InitConvert /\ [][NextConvert]_vars

\* a client on which aggregation_query_run is called
InitAggregate ==
    /\ q_pc = "idle"
    /\ q_query = None
    /\ q_tx = None
    /\ q_cur_query = None
    /\ q_cursor = <<>>
    /\ q_output = <<>>
    /\ q_result = None
    /\ q_requests = <<>>
    /\ q_pages = <<>>
    /\ l_pc = "idle"
    /\ l_og_keys = <<>>
    /\ l_tx = None
    /\ l_keys = <<>>
    /\ l_found = <<>>
    /\ l_result = None
    /\ l_requests = <<>>
    /\ l_responses = <<>>
    /\ l_store = {}
    /\ w_pc = "run"
    /\ w_client = [project_name |-> ProjectName, index_excluded |-> NoIndexExcluded]
    /\ w_tx = None
    /\ w_supplied = <<>>
    /\ w_last = None
    /\ w_sent = None
    /\ w_nsent = 0
    /\ w_call = None
    /\ w_txcall = None
    /\ w_ncalls = 0
    /\ c_fn = "none"
    /\ c_args = <<>>
    /\ c_result = <<>>

NextAggregate ==
    \/ \E aggregations \in Fresh(SeqsUpTo(Aggregations, MaxAggregations)), query \in Queries,
          tx_id \in TxIds :
            AggregationQueryRun(aggregations, query, tx_id)
    \/ \E outcome \in TokenOutcomes : AggregationToken(outcome)
    \/ \E outcome \in AggregationOutcomes :
        \E aggregation_results \in Suspended(AggregationBatches(c_args[1])) :
            AggregationResponse(outcome, aggregation_results)
    \/ AggregationDrop

SpecAggregate == InitAggregate /\ [][NextAggregate]_vars

\* record types with a derived FromValue, each decoded once from a value
InitDecode ==
    /\ q_pc = "idle"
    /\ q_query = None
    /\ q_tx = None
    /\ q_cur_query = None
    /\ q_cursor = <<>>
    /\ q_output = <<>>
    /\ q_result = None
    /\ q_requests = <<>>
    /\ q_pages = <<>>
    /\ l_pc = "idle"
    /\ l_og_keys = <<>>
    /\ l_tx = None
    /\ l_keys = <<>>
    /\ l_found = <<>>
    /\ l_result = None
    /\ l_requests = <<>>
    /\ l_responses = <<>>
    /\ l_store = {}
    /\ w_pc = "run"
    /\ w_client = [project_name |-> ProjectName, index_excluded |-> NoIndexExcluded]
    /\ w_tx = None
    /\ w_supplied = <<>>
    /\ w_last = None
    /\ w_sent = None
    /\ w_nsent = 0
    /\ w_call = None
    /\ w_txcall = None
    /\ w_ncalls = 0
    /\ c_fn = "none"
    /\ c_args = <<>>
    /\ c_result = <<>>

NextDecode ==
    \E fields \in Fresh(StructDecls), rename_all \in RenameAlls :
        \E value \in StoredFor(fields, rename_all) \cup NonEntityValues :
            FromValue(fields, rename_all, value)

SpecDecode == InitDecode /\ [][NextDecode]_vars

(***************************************************************************)
(* Properties of query pagination                                          *)
(***************************************************************************)

LastPage == q_pages[Len(q_pages)]

\* C1: query_run stops exactly at the first page whose more-results
\* indicator is not NotFinished: no page is fetched after such a page, the
\* run is over as soon as one arrives, and when it is over after k pages
\* exactly k requests were issued and the cursor returned is the end cursor
\* of page k.
C1_HaltsAtFirstFinishedPage ==
    /\ \A i \in 1..(Len(q_pages) - 1) : q_pages[i].more_results = "NotFinished"
    /\ (q_pages # <<>> /\ LastPage.more_results # "NotFinished") => q_pc = "done"
    /\ q_pc = "done" =>
        /\ q_pages # <<>>
        /\ LastPage.more_results # "NotFinished"
        /\ Len(q_requests) = Len(q_pages)
        /\ Unwrap(q_result).ok
        /\ Unwrap(q_result).cursor = LastPage.end_cursor

C1_Witness ==
    /\ q_pc = "done"
    /\ Len(q_pages) = 3
    /\ LastPage.more_results = "MoreResultsAfterLimit"
    /\ LastPage.end_cursor # q_pages[2].end_cursor

\* the entities of pages 1..n, page after page, each page in its own order
RECURSIVE EntitiesOfPages(_, _)
EntitiesOfPages(pages, n) ==
    IF n = 0 THEN <<>>
    ELSE EntitiesOfPages(pages, n - 1) \o
         [i \in 1..Len(pages[n].entity_results) |->
            Entity_from(Unwrap(pages[n].entity_results[i].entity))]

\* C2: the accumulated output is at every moment the concatenation of the
\* entity results of the pages fetched so far, in request order and in each
\* page's order, and the list returned holds those of every page, the final
\* one included.
C2_OutputIsConcatenation ==
    /\ q_pc \in {"loop", "wait", "done"} =>
            q_output = EntitiesOfPages(q_pages, Len(q_pages))
    /\ q_pc = "done" =>
            Unwrap(q_result).entities = EntitiesOfPages(q_pages, Len(q_pages))

C2_Witness ==
    /\ q_pc = "done"
    /\ Len(q_pages) = 3
    /\ Len(q_pages[1].entity_results) = 2
    /\ Len(q_pages[2].entity_results) = 1
    /\ Len(LastPage.entity_results) = 2
    /\ q_pages[1].entity_results # LastPage.entity_results
    /\ Len(Unwrap(q_result).entities) = 5

\* the request fields other than the start cursor
RequestFrame(request) ==
    [request EXCEPT !.query_type =
        Some([Unwrap(request.query_type) EXCEPT !.query.start_cursor = <<>>])]

StartCursorOf(request) == Unwrap(request.query_type).query.start_cursor

\* C3: the first request starts at the caller's cursor (empty when the query
\* has none), each later request starts at the end cursor of the page before
\* it, and every request agrees in all other fields with what the caller's
\* query gives: kind, namespace, filters and composite operator, ordering,
\* projections, distinct-on, offset, limit and consistency.
C3_OnlyCursorChanges ==
    \A n \in 1..Len(q_requests) :
        LET request == q_requests[n]
            api_query == Unwrap(request.query_type).query
            query == Unwrap(q_query)
        IN /\ StartCursorOf(request) =
                IF n = 1
                THEN (IF IsSome(query.cursor) THEN Unwrap(query.cursor) ELSE <<>>)
                ELSE q_pages[n - 1].end_cursor
           /\ RequestFrame(request) = RequestFrame(q_requests[1])
           /\ api_query.kind = <<[name |-> query.kind]>>
           /\ Unwrap(request.partition_id).namespace_id =
                (IF IsSome(query.namespace) THEN Unwrap(query.namespace) ELSE "")
           /\ (api_query.filter = None) = (query.filters = <<>>)
           /\ IsSome(api_query.filter) =>
                LET composite == Unwrap(Unwrap(api_query.filter).filter_type)
                IN /\ composite.op = query.composite_filter
                   /\ Len(composite.filters) = Len(query.filters)
                   /\ \A i \in 1..Len(query.filters) :
                        LET pf == Unwrap(composite.filters[i].filter_type)
                        IN /\ pf.op = query.filters[i].op
                           /\ Unwrap(pf.value) =
                                convert_value(ProjectName, query.filters[i].value,
                                              <<>>, FALSE)
           /\ Len(api_query.order) = Len(query.ordering)
           /\ \A i \in 1..Len(query.ordering) :
                /\ Unwrap(api_query.order[i].property).name = query.ordering[i].name
                /\ (api_query.order[i].direction = "Ascending")
                        = (query.ordering[i].dir = "Asc")
           /\ Len(api_query.projection) = Len(query.projections)
           /\ \A i \in 1..Len(query.projections) :
                Unwrap(api_query.projection[i].property).name = query.projections[i]
           /\ Len(api_query.distinct_on) = Len(query.distinct_on)
           /\ \A i \in 1..Len(query.distinct_on) :
                api_query.distinct_on[i].name = query.distinct_on[i]
           /\ api_query.offset = query.offset
           /\ api_query.limit = query.limit
           /\ api_query.end_cursor = <<>>
           /\ Unwrap(Unwrap(request.read_options).consistency_type) =
                (IF IsSome(q_tx)
                 THEN [tag |-> "Transaction", tx |-> Unwrap(q_tx)]
                 ELSE [tag |-> "ReadConsistency",
                       rc |-> IF query.eventual THEN "Eventual" ELSE "Strong"])

C3_Witness ==
    /\ Len(q_requests) = 3
    /\ Unwrap(q_query).cursor = Some(<<9>>)
    /\ Unwrap(q_query).filters # <<>>
    /\ StartCursorOf(q_requests[2]) # StartCursorOf(q_requests[3])
    /\ StartCursorOf(q_requests[2]) # <<9>>

(***************************************************************************)
(* Properties of the lookup loop                                           *)
(***************************************************************************)

\* the keys of the entities the responses so far listed as found
FoundInSomeRound ==
    {Key_from(Unwrap(Unwrap(e.entity).key)) :
        e \in UNION {Range(l_responses[n].found) : n \in 1..Len(l_responses)}}

\* what a caller gets for the entity stored under a key, for the type ty
DecodedEntity(ty, key) ==
    from_value(ty, Entity_from(StoredEntity(key)).properties).value

\* C4 as stated: one entry for every requested key whose entity was found,
\* in request order.
C4_OneEntryPerRequestedKey ==
    l_pc = "done" =>
        LET hits == SelectSeq(l_og_keys, LAMBDA k : k \in FoundInSomeRound)
        IN Unwrap(l_result).values =
            [i \in 1..Len(hits) |-> DecodedEntity(Unwrap(l_result).ty, hits[i])]

\* the positions of og_keys that hold the first occurrence of a found key
FirstHits ==
    SelectSeq([i \in 1..Len(l_og_keys) |-> [pos |-> i, key |-> l_og_keys[i]]],
              LAMBDA e : /\ e.key \in FoundInSomeRound
                         /\ \A j \in 1..(e.pos - 1) : l_og_keys[j] # e.key)

\* C4 (amended): get_all_run returns one entry for every distinct requested
\* key whose entity was found in some round, whatever the round and the
\* order in which the server listed it, placed in the order of the keys'
\* first occurrences in the request; a key never found has no entry.
C4_FoundInRequestOrder ==
    l_pc = "done" =>
        /\ Unwrap(l_result).ok
        /\ Unwrap(l_result).values =
            [i \in 1..Len(FirstHits) |->
                DecodedEntity(Unwrap(l_result).ty, FirstHits[i].key)]

\* K_root answered in round 1, K_child deferred and found in round 2, K_name
\* never found
C4_Witness ==
    /\ l_pc = "done"
    /\ l_og_keys = <<K_root, K_child, K_name>>
    /\ Len(l_responses) = 2
    /\ Len(l_responses[1].found) = 1
    /\ l_responses[1].deferred = <<convert_key(ProjectName, K_child)>>
    /\ Len(l_responses[2].found) = 1
    /\ Unwrap(l_result).ty = "Value"
    /\ Unwrap(l_result).values = <<StoredProperties(K_root), StoredProperties(K_child)>>

\* the map built from the found lists of responses 1..n
RECURSIVE MergedFound(_)
MergedFound(n) ==
    IF n = 0 THEN <<>>
    ELSE LET listed == l_responses[n].found
             latest == [k \in {Key_from(Unwrap(Unwrap(listed[i].entity).key)) :
                                i \in 1..Len(listed)} |->
                            Entity_from(StoredEntity(k)).properties]
         IN latest @@ MergedFound(n - 1)

\* C5: the first request carries all requested keys, each later request
\* carries exactly the deferred list of the response before it, the found
\* entities of every round are in the accumulated map, no request is sent
\* with an empty key list, and no request follows a response whose deferred
\* list is empty.
C5_LookupLoop ==
    /\ \A n \in 1..Len(l_requests) :
        /\ l_requests[n].keys # <<>>
        /\ l_requests[n].keys =
            IF n = 1
            THEN [i \in 1..Len(l_og_keys) |-> convert_key(ProjectName, l_og_keys[i])]
            ELSE l_responses[n - 1].deferred
    /\ \A n \in 1..(Len(l_responses) - 1) : l_responses[n].deferred # <<>>
    /\ Len(l_responses) <= Len(l_requests)
    /\ l_pc \in {"loop", "done"} =>
        /\ Len(l_requests) = Len(l_responses)
        /\ l_found = MergedFound(Len(l_responses))
    /\ l_pc = "loop" =>
        l_keys = IF l_responses = <<>>
                 THEN [i \in 1..Len(l_og_keys) |-> convert_key(ProjectName, l_og_keys[i])]
                 ELSE l_responses[Len(l_responses)].deferred
    /\ l_pc = "done" =>
        \/ l_og_keys = <<>> /\ l_requests = <<>>
        \/ l_responses # <<>> /\ l_responses[Len(l_responses)].deferred = <<>>

C5_Witness ==
    /\ l_pc = "done"
    /\ Len(l_requests) = 2
    /\ Len(l_requests[1].keys) = 3
    /\ Len(l_requests[2].keys) = 2
    /\ Cardinality(DOMAIN l_found) = 3
    /\ Len(l_responses[1].found) = 1

\* C6 (state part): a failed call returns the error alone, with no entity
\* of any round, and no request is ever sent after a request that failed:
\* all requests but the latest were answered.
C6_ErrorState ==
    /\ l_pc = "err" =>
        /\ ~Unwrap(l_result).ok
        /\ "values" \notin DOMAIN Unwrap(l_result)
        /\ Unwrap(l_result).err \in {"token", "transport", "MissingProperty",
                                     "UnexpectedPropertyType"}
    /\ Len(l_requests) <= Len(l_responses) + 1
    /\ l_pc \in {"loop", "done"} => Len(l_requests) = Len(l_responses)
    /\ (l_pc = "err" /\ Unwrap(l_result).err = "token") =>
            Len(l_requests) = Len(l_responses)
    /\ (l_pc = "err" /\ Unwrap(l_result).err = "transport") =>
            Len(l_requests) = Len(l_responses) + 1

\* C6: if a round of the lookup loop fails, get_all_run returns that error
\* without any of the entities found before, and from then on it sends no
\* request: the failed request is not retried.
C6_FailureAborts ==
    /\ []C6_ErrorState
    /\ [][l_pc = "err" => (l_pc' = "err" /\ l_requests' = l_requests
                            /\ l_result' = l_result)]_vars

C6_Witness ==
    /\ l_pc = "err"
    /\ Unwrap(l_result).err = "transport"
    /\ Len(l_responses) = 1
    /\ Cardinality(DOMAIN l_found) = 2
    /\ Len(l_requests) = 2

(***************************************************************************)
(* Properties of writes                                                    *)
(***************************************************************************)

Pending == Unwrap(w_tx).commit_request.mutations

TagOf(mutation) == Unwrap(mutation.operation).tag

PayloadOf(mutation) == Unwrap(mutation.operation).payload

\* the classification the contract asks for
ExpectedTag(key) ==
    IF key.is_new \/ key.id = Incomplete THEN "Insert" ELSE "Upsert"

ClientPutOps == {"Client::put", "Client::put_all"}
ClientDeleteOps == {"Client::delete", "Client::delete_all"}
TxQueueOps ==
    {"Transaction::put", "Transaction::put_all", "Transaction::delete",
     "Transaction::delete_all"}

\* a step in which a suspended call passes construct_request and its commit
\* request goes to the service
ClientSends ==
    /\ IsSome(w_call) /\ Unwrap(w_call).at = "token"
    /\ IsSome(w_call') /\ Unwrap(w_call').at = "rpc"
    /\ IsSome(Unwrap(w_call).request)

TxSends ==
    /\ IsSome(w_txcall) /\ Unwrap(w_txcall).at = "token"
    /\ IsSome(w_txcall') /\ Unwrap(w_txcall').at = "rpc"
    /\ IsSome(Unwrap(w_txcall).request)

\* a step that is a whole call: one that returns without being suspended
ReturnsAtOnce ==
    /\ w_ncalls' # w_ncalls
    /\ w_call' = w_call
    /\ w_txcall' = w_txcall

\* C7: an entity is written as an Insert exactly when its key is marked new
\* or the id of its last path element is incomplete, and as an Upsert
\* otherwise, by Transaction::put_all (the pending mutations, against the
\* entities supplied) and by Client::put_all (the request that goes out,
\* against the arguments of the call) alike.
C7_InsertIffNewOrIncomplete ==
    /\ [](IsSome(w_tx) =>
            /\ Len(Pending) = Len(w_supplied)
            /\ \A i \in 1..Len(w_supplied) :
                w_supplied[i].op = "put" =>
                    TagOf(Pending[i]) = ExpectedTag(w_supplied[i].entity.key))
    /\ [][(ClientSends /\ Unwrap(w_call).op \in ClientPutOps) =>
            LET items == Unwrap(w_call).args
                sent == Unwrap(w_sent').mutations
            IN /\ Len(sent) = Len(items)
               /\ \A i \in 1..Len(items) :
                    TagOf(sent[i]) = ExpectedTag(items[i].entity.key)
         ]_vars

C7_Witness ==
    /\ IsSome(w_tx)
    /\ Len(w_supplied) = 3
    /\ w_supplied[1].op = "put" /\ w_supplied[1].entity.key = K_incomplete
    /\ w_supplied[2].op = "put" /\ w_supplied[2].entity.key = K_root
    /\ w_supplied[3].op = "put" /\ w_supplied[3].entity.key = K_new
    /\ [i \in 1..3 |-> TagOf(Pending[i])] = <<"Insert", "Upsert", "Insert">>

\* every mutation sent or queued
MutationsEverywhere ==
    (IF IsSome(w_sent) THEN Range(Unwrap(w_sent).mutations) ELSE {}) \cup
    (IF IsSome(w_tx) THEN Range(Pending) ELSE {})

LastElement(wire_key) == wire_key.path[Len(wire_key.path)]

\* C8: a key whose last path element has no id is never deleted: no Delete
\* mutation that is sent or queued carries such a key.
C8_DeleteKeysComplete ==
    \A mutation \in MutationsEverywhere :
        TagOf(mutation) = "Delete" =>
            LastElement(PayloadOf(mutation)).id_type # None

\* the mutation the contract asks for, for what the caller supplied
ExpectedMutation(supplied) ==
    IF supplied.op = "put"
    THEN [operation |->
            Some([tag |-> ExpectedTag(supplied.entity.key),
                  payload |-> convert_entity(ProjectName, supplied.entity, IndexPolicy)]),
          conflict_detection_strategy |-> None]
    ELSE [operation |->
            Some([tag |-> "Delete", payload |-> convert_key(ProjectName, supplied.key)]),
          conflict_detection_strategy |-> None]

\* C9: the pending list of a transaction is, element by element, what its
\* put, put_all, delete and delete_all calls were given, in call order and
\* within a call in the order of the caller; and the request of a direct
\* put_all or delete_all holds the mutations of its arguments in their order.
C9_MutationOrder ==
    /\ [](IsSome(w_tx) =>
            Pending = [i \in 1..Len(w_supplied) |-> ExpectedMutation(w_supplied[i])])
    /\ [][ClientSends =>
            LET call == Unwrap(w_call)
            IN /\ call.op \in ClientPutOps =>
                    Unwrap(w_sent').mutations =
                        [i \in 1..Len(call.args) |->
                            ExpectedMutation([op |-> "put",
                                              entity |-> call.args[i].entity])]
               /\ call.op \in ClientDeleteOps =>
                    Unwrap(w_sent').mutations =
                        [i \in 1..Len(call.args) |->
                            ExpectedMutation([op |-> "delete", key |-> call.args[i]])]
         ]_vars

C9_Witness ==
    /\ IsSome(w_tx)
    /\ Len(Pending) = 3
    /\ Unwrap(w_last).op = "Transaction::delete"
    /\ w_supplied[1].op = "put" /\ w_supplied[2].op = "put"
    /\ w_supplied[1].entity.key = K_new /\ w_supplied[2].entity.key = K_root
    /\ TagOf(Pending[1]) = "Insert"
    /\ TagOf(Pending[3]) = "Delete"

\* C10: a put, put_all, delete or delete_all on a transaction sends nothing;
\* a commit sends one request, in Transactional mode, with the transaction
\* key and all mutations accumulated so far; a direct put_all or delete_all
\* sends one NonTransactional request without a transaction selector.
C10_DeferredWrites ==
    [][/\ (ReturnsAtOnce /\ Unwrap(w_last').op \in TxQueueOps) =>
            (w_sent' = w_sent /\ w_nsent' = w_nsent)
       /\ w_nsent' # w_nsent =>
            /\ w_nsent' = w_nsent + 1
            /\ ClientSends \/ TxSends
       /\ TxSends =>
            /\ Unwrap(w_txcall).op = "Transaction::commit"
            /\ w_nsent' = w_nsent + 1
            /\ w_sent' =
                Some([mutations |-> Pending,
                      mode |-> "Transactional",
                      transaction_selector |->
                          Some([tag |-> "Transaction", tx |-> Unwrap(w_tx).tx_key]),
                      database_id |-> "",
                      project_id |-> ProjectName])
       /\ ClientSends =>
            /\ Unwrap(w_call).op \in ClientPutOps \cup ClientDeleteOps
            /\ w_nsent' = w_nsent + 1
            /\ Unwrap(w_sent').mode = "NonTransactional"
            /\ Unwrap(w_sent').transaction_selector = None
            /\ Len(Unwrap(w_sent').mutations) = Len(Unwrap(w_call).args)
      ]_vars

C10_Witness ==
    /\ IsSome(w_tx)
    /\ IsSome(w_last)
    /\ Unwrap(w_last).op = "Transaction::commit"
    /\ Unwrap(w_last).result.ok
    /\ w_nsent = 2
    /\ Unwrap(w_sent).mode = "Transactional"
    /\ Unwrap(w_sent).mutations = Pending
    /\ Len(Pending) = 2

(***************************************************************************)
(* Properties of the conversion functions                                  *)
(***************************************************************************)

\* the text of a path before its first separator: the whole path when it
\* has none
FirstSegment(path) ==
    IF \E i \in 1..Len(path) : path[i] = Dot
    THEN SubSeq(path, 1,
                (CHOOSE i \in 1..Len(path) :
                    path[i] = Dot /\ \A j \in 1..(i - 1) : path[j] # Dot) - 1)
    ELSE path

\* the text of a path after its first separator: empty when it has none
Remainder(path) ==
    IF \E i \in 1..Len(path) : path[i] = Dot
    THEN SubSeq(path, Len(FirstSegment(path)) + 2, Len(path))
    ELSE <<>>

Occurrences(list, x) == Cardinality({i \in 1..Len(list) : list[i] = x})

\* result holds, for each path of list that starts with step, its
\* remainder, and nothing else
IsNarrowing(result, list, step) ==
    /\ Len(result) = Cardinality({i \in 1..Len(list) : FirstSegment(list[i]) = step})
    /\ \A r \in Range(result) \cup {Remainder(list[i]) : i \in 1..Len(list)} :
        Occurrences(result, r) =
            Cardinality({i \in 1..Len(list) :
                            FirstSegment(list[i]) = step /\ Remainder(list[i]) = r})

\* C11: narrowing a path collection by a step yields, for each path whose
\* first segment equals the step, the path's remainder after the first
\* separator (empty when it has none) and nothing else; narrowing at the
\* top level (ckeck_value, on the paths of the kind) and nested narrowing
\* (get_exclude_from_indexes) agree.
C11_Narrowing ==
    /\ c_fn = "get_exclude_from_indexes" =>
        IsNarrowing(c_result, c_args[1], c_args[2])
    /\ (c_fn = "ckeck_value" /\ c_args[2] \in DOMAIN c_args[1].kind) =>
        /\ IsNarrowing(c_result, c_args[1].kind[c_args[2]].property, c_args[3])
        /\ c_result = get_exclude_from_indexes(c_args[1].kind[c_args[2]].property,
                                               c_args[3])

C11_Witness ==
    /\ c_fn = "ckeck_value"
    /\ c_args[2] = "customer"
    /\ c_args[3] = <<"a">>
    /\ "customer" \in DOMAIN c_args[1].kind
    /\ c_args[1].kind["customer"].property = << <<"a", Dot, "a">>, <<"a">> >>
    /\ c_result = << <<"a">>, <<>> >>

\* C12: the exact-match test is true exactly when the narrowed list has one
\* entry and that entry is the empty path; it is false for the empty list,
\* for a single non-empty entry and for two or more entries.
C12_ExactMatch ==
    c_fn = "check_exclude_from_indexes" =>
        (c_result <=> (Len(c_args[1]) = 1 /\ Len(c_args[1][1]) = 0))

C12_Witness ==
    /\ c_fn = "check_exclude_from_indexes"
    /\ c_args[1] = << <<>>, <<>> >>
    /\ c_result = FALSE

\* the property nodes of a wire entity, each with the names that lead to it
\* from the top and its exclusion mark (arrays are not entered)
RECURSIVE WireNodes(_, _)
WireNodes(properties, prefix) ==
    UNION {
        {[path |-> Append(prefix, k), excl |-> properties[k].exclude_from_indexes]} \cup
        (IF Unwrap(properties[k].value_type).tag = "EntityValue"
         THEN WireNodes(Unwrap(properties[k].value_type).entity.properties,
                        Append(prefix, k))
         ELSE {})
        : k \in DOMAIN properties}

Excluded(wire_entity, path) ==
    [path |-> path, excl |-> TRUE] \in WireNodes(wire_entity.properties, <<>>)

NotExcluded(wire_entity, path) ==
    [path |-> path, excl |-> FALSE] \in WireNodes(wire_entity.properties, <<>>)

\* the policy path runs through the branch of these names
RECURSIVE RunsThrough(_, _)
RunsThrough(policy_path, names) ==
    \/ names = <<>>
    \/ /\ FirstSegment(policy_path) = Head(names)
       /\ RunsThrough(Remainder(policy_path), Tail(names))

\* C13: with the policy customer: [email, address.zip], a customer with an
\* email and an address holding a zip and a city is converted with email
\* and address.zip excluded from indexes and with address and address.city
\* not excluded; and under any policy a property is excluded only when a
\* policy path of the entity's kind runs through exactly its branch, so a
\* path p.q never excludes a q at another level or under another parent.
C13_ExclusionPerBranch ==
    c_fn = "convert_entity" =>
        LET entity == c_args[2]
            policy == c_args[3]
            kind == entity.key.kind
            paths == IF kind \in DOMAIN policy.kind
                     THEN Range(policy.kind[kind].property) ELSE {}
        IN /\ (entity = ExampleCustomer /\ policy = ExamplePolicy) =>
                /\ Excluded(c_result, <<s_email>>)
                /\ Excluded(c_result, <<s_address, s_zip>>)
                /\ NotExcluded(c_result, <<s_address, s_city>>)
                /\ NotExcluded(c_result, <<s_address>>)
           /\ \A node \in WireNodes(c_result.properties, <<>>) :
                node.excl => \E policy_path \in paths : RunsThrough(policy_path, node.path)

C13_Witness ==
    /\ c_fn = "convert_entity"
    /\ c_args[2] = BranchCustomer
    /\ c_args[3] = ExamplePolicy
    /\ Excluded(c_result, <<s_address, s_zip>>)
    /\ NotExcluded(c_result, <<s_zip>>)
    /\ NotExcluded(c_result, <<s_city, s_zip>>)
    /\ NotExcluded(c_result, <<s_address, s_city, s_zip>>)

\* the value is an array, or an optional that wraps an array
IsArrayNode(value) ==
    \/ value.tag = "ArrayValue"
    \/ /\ value.tag = "OptionValue"
       /\ IsSome(value.opt)
       /\ Unwrap(value.opt).tag = "ArrayValue"

\* the value inside its optionals
RECURSIVE Innermost(_)
Innermost(value) ==
    IF value.tag = "OptionValue" /\ IsSome(value.opt) THEN Innermost(Unwrap(value.opt))
    ELSE value

\* every node of the wire value, converted from value with the ambient
\* decision, carries the mark the rule gives it
RECURSIVE MarksFollowRule(_, _, _, _)
MarksFollowRule(value, wire, path_excluded, ambient) ==
    /\ wire.exclude_from_indexes = (IF IsArrayNode(value) THEN FALSE ELSE ambient)
    /\ LET inner == Innermost(value)
           value_type == Unwrap(wire.value_type)
       IN CASE inner.tag = "ArrayValue" ->
                /\ value_type.tag = "ArrayValue"
                /\ Len(value_type.values) = Len(inner.vals)
                /\ \A i \in 1..Len(inner.vals) :
                    MarksFollowRule(inner.vals[i], value_type.values[i],
                                    path_excluded, ambient)
            [] inner.tag = "EntityValue" ->
                /\ value_type.tag = "EntityValue"
                /\ DOMAIN value_type.entity.properties = DOMAIN inner.props
                /\ \A k \in DOMAIN inner.props :
                    LET narrowed == get_exclude_from_indexes(path_excluded, k)
                    IN MarksFollowRule(inner.props[k], value_type.entity.properties[k],
                                       narrowed, check_exclude_from_indexes(narrowed))
            [] OTHER -> TRUE

\* C14: in the wire value convert_value produces, a node whose value is an
\* array or an optional wrapping an array is never excluded from indexes,
\* whatever the ambient decision; every other node, an absent optional and
\* an optional wrapping a non-array included, carries the ambient decision
\* it was converted with; the elements of an array are converted with the
\* ambient decision of the array.
C14_ArraysNeverExcluded ==
    c_fn = "convert_value" =>
        MarksFollowRule(c_args[2], c_result, c_args[3], c_args[4])

C14_Witness ==
    /\ c_fn = "convert_value"
    /\ c_args[2] = OptionValue(Some(ArrayOfTwo))
    /\ c_args[4] = TRUE
    /\ c_result.exclude_from_indexes = FALSE
    /\ Unwrap(c_result.value_type).tag = "ArrayValue"
    /\ \A i \in 1..2 : Unwrap(c_result.value_type).values[i].exclude_from_indexes = TRUE

\* a key and its ancestors, the root first
RECURSIVE RootFirst(_)
RootFirst(key) ==
    (IF IsSome(key.parent) THEN RootFirst(Unwrap(key.parent)) ELSE <<>>) \o <<key>>

\* the id a path element stands for
IdOfElement(element) ==
    IF element.id_type = None THEN Incomplete
    ELSE IF Unwrap(element.id_type).tag = "Id" THEN IntID(Unwrap(element.id_type).id)
    ELSE StringID(Unwrap(element.id_type).name)

\* the kinds and ids of a key and its ancestors, the root first
Identity(key) ==
    [i \in 1..Len(RootFirst(key)) |->
        [kind |-> RootFirst(key)[i].kind, id |-> RootFirst(key)[i].id]]

\* C15: convert_key emits one path element per key of the parent chain, the
\* root first and the key itself last, each with the kind and the id
\* (integer, name or none) of its key; and the key rebuilt from the wire key
\* has the same kind, id and parent chain as the key converted.
C15_KeyRoundTrip ==
    c_fn = "convert_key" =>
        LET key == c_args[2]
        IN /\ Len(c_result.path) = Len(RootFirst(key))
           /\ \A i \in 1..Len(c_result.path) :
                /\ c_result.path[i].kind = RootFirst(key)[i].kind
                /\ IdOfElement(c_result.path[i]) = RootFirst(key)[i].id
           /\ Identity(Key_from(c_result)) = Identity(key)

C15_Witness ==
    /\ c_fn = "convert_key"
    /\ Identity(c_args[2]) =
        <<[kind |-> "customer", id |-> IntID(1)],
          [kind |-> "order", id |-> StringID("n")],
          [kind |-> "order", id |-> Incomplete]>>
    /\ c_result.path =
        <<[kind |-> "customer", id_type |-> Some([tag |-> "Id", id |-> 1])],
          [kind |-> "order", id_type |-> Some([tag |-> "Name", name |-> "n"])],
          [kind |-> "order", id_type |-> None]>>

\* the value holds no key
RECURSIVE HasNoKey(_)
HasNoKey(value) ==
    CASE value.tag = "KeyValue" -> FALSE
      [] value.tag = "OptionValue" -> (IsSome(value.opt) => HasNoKey(Unwrap(value.opt)))
      [] value.tag = "ArrayValue" -> \A i \in 1..Len(value.vals) : HasNoKey(value.vals[i])
      [] value.tag = "EntityValue" -> \A k \in DOMAIN value.props : HasNoKey(value.props[k])
      [] OTHER -> TRUE

\* C16: a value that holds no key, converted with no exclusion path and the
\* decision "not excluded", comes back from its wire value as the same
\* value, optionals, nested entities, arrays and the seconds and nanoseconds
\* of timestamps included.
C16_ValueRoundTrip ==
    (c_fn = "convert_value" /\ c_args[3] = <<>> /\ c_args[4] = FALSE
        /\ HasNoKey(c_args[2])) =>
        Value_from(Unwrap(c_result.value_type)) = c_args[2]

(***************************************************************************)
(* Properties of aggregation queries                                       *)
(***************************************************************************)

\* the wire operator the contract asks for
ExpectedOperator(aggr) ==
    CASE aggr.tag = "Count" -> [tag |-> "Count", up_to |-> Some(1000)]
      [] aggr.tag = "Sum" -> [tag |-> "Sum", property |-> Some([name |-> aggr.property])]
      [] aggr.tag = "Avg" -> [tag |-> "Avg", property |-> Some([name |-> aggr.property])]

AggregationQueryOf(request) == Unwrap(request.query_type).aggregation_query

\* C17: the request of an aggregation query holds one wire aggregation per
\* requested aggregation, in request order, with the same alias and the
\* matching operator (Count with the upper bound 1000, Sum and Avg over the
\* property asked for), and the base query as its nested query; and every
\* aggregation result of the response is returned, in order, as one entity
\* Value with a property per alias.
C17_AggregationTranslation ==
    (c_fn = "aggregation_query_run" /\ IsSome(c_result.request)) =>
        LET aggregations == c_args[1]
            query == c_args[2]
            sent == AggregationQueryOf(Unwrap(c_result.request))
        IN /\ Len(sent.aggregations) = Len(aggregations)
           /\ \A i \in 1..Len(aggregations) :
                /\ sent.aggregations[i].alias = aggregations[i].alias
                /\ sent.aggregations[i].operator = Some(ExpectedOperator(aggregations[i]))
           /\ Unwrap(sent.query_type).tag = "NestedQuery"
           /\ Unwrap(sent.query_type).nested_query =
                convert_query(ProjectName, query,
                              IF IsSome(query.cursor) THEN Unwrap(query.cursor) ELSE <<>>)
           /\ ("response" \in DOMAIN c_result) =>
                /\ c_result.returned.ok
                /\ Len(c_result.returned.value) = Len(c_result.response)
                /\ \A i \in 1..Len(c_result.response) :
                    LET value == c_result.returned.value[i]
                        properties == c_result.response[i].aggregate_properties
                    IN /\ value.tag = "EntityValue"
                       /\ DOMAIN value.props = DOMAIN properties
                       /\ \A alias \in DOMAIN properties :
                            value.props[alias] =
                                Value_from(Unwrap(properties[alias].value_type))

C17_Witness ==
    /\ c_fn = "aggregation_query_run"
    /\ c_args[1] = <<Count("n"), Avg("m", "price")>>
    /\ c_args[2].kind = "order"
    /\ "response" \in DOMAIN c_result
    /\ c_result.returned =
        Ok(<<EntityValue("n" :> DoubleValue(4) @@ "m" :> DoubleValue(4)),
             EntityValue("n" :> IntegerValue(3) @@ "m" :> IntegerValue(3))>>)

(***************************************************************************)
(* Properties of record decoding                                           *)
(***************************************************************************)

\* the type a field's written type stands for: the last identifier of its
\* path, so that std::string::String is the type String
TypeOf(ty) == ty.path[Len(ty.path)]

\* the absent or zero value of a field type, for the types that have one
ZeroOf(ty) ==
    CASE TypeOf(ty) = "Option" -> Some(OptionValue(None))
      [] TypeOf(ty) = "String" -> Some(StringValue(""))
      [] TypeOf(ty) = "bool" -> Some(BooleanValue(FALSE))
      [] TypeOf(ty) = "i64" -> Some(IntegerValue(0))
      [] TypeOf(ty) = "f64" -> Some(DoubleValue(0))
      [] TypeOf(ty) = "Vec" -> Some(ArrayValue(<<>>))
      [] TypeOf(ty) = "NaiveDateTime" -> Some(TimestampValue(0, 0))
      [] OTHER -> None

\* what stands in for a missing property: the explicit default, else the
\* zero of the type, else nothing
Substitute(field) ==
    IF IsSome(field.default) THEN field.default ELSE ZeroOf(field.ty)

\* the property a field is decoded from: its rename, else its cased name
PropertyOf(field, rename_all) ==
    IF field.rename # None THEN field.rename[1]
    ELSE transform_field_casing(field.ident, rename_all)

\* C18: decoding a record from an entity takes every present property from
\* its stored value, never from the default; for a missing property it takes
\* the field's explicit default if there is one, else the absent or zero
\* value when the field type is optional, string, boolean, 64-bit integer,
\* double, sequence or timestamp, however the type is written, and else
\* fails with MissingProperty naming the renamed or cased property; decoding
\* from a value that is no entity fails with UnexpectedPropertyType.
C18_MissingProperty ==
    c_fn = "from_value" =>
        LET fields == c_args[1]
            rename_all == c_args[2]
            value == c_args[3]
        IN IF value.tag # "EntityValue"
           THEN /\ ~c_result.ok
                /\ c_result.err.tag = "UnexpectedPropertyType"
           ELSE LET name(i) == PropertyOf(fields[i], rename_all)
                    absent(i) == name(i) \notin DOMAIN value.props
                    fails(i) ==
                        IF absent(i) THEN Substitute(fields[i]) = None
                        ELSE value.props[name(i)] = Undecodable
                    failing == {i \in 1..Len(fields) : fails(i)}
                IN IF failing # {}
                   THEN LET i == CHOOSE i \in failing : \A j \in failing : i <= j
                        IN /\ ~c_result.ok
                           /\ absent(i) =>
                                c_result.err = [tag |-> "MissingProperty", name |-> name(i)]
                           /\ ~absent(i) => c_result.err.tag = "UnexpectedPropertyType"
                   ELSE /\ c_result.ok
                        /\ \A i \in 1..Len(fields) :
                            c_result.value[fields[i].ident] =
                                IF absent(i) THEN Substitute(fields[i])[1]
                                ELSE value.props[name(i)]

(***************************************************************************)
(* Properties of the client's policy and of non-entity values              *)
(***************************************************************************)

\* the entities of a put call that got past into_entity
EntitiesOfCall(call) ==
    IF \A i \in 1..Len(call.args) : call.args[i].ok
    THEN [i \in 1..Len(call.args) |-> call.args[i].entity]
    ELSE <<>>

\* C19: an entity whose properties are not an entity value is never
\* converted: the put that meets one ends in a panic before it is suspended,
\* and no commit request sent and no pending mutation of a transaction holds
\* anything but a wire entity built from an entity value.
C19_NonEntityFailsFast ==
    /\ \A mutation \in MutationsEverywhere :
        TagOf(mutation) \in {"Insert", "Upsert"} =>
            DOMAIN PayloadOf(mutation) = {"key", "properties"}
    /\ \A i \in 1..Len(w_supplied) :
        w_supplied[i].op = "put" => w_supplied[i].entity.properties.tag = "EntityValue"
    /\ (IsSome(w_last) /\ Unwrap(w_last).op \in ClientPutOps) =>
        LET entities == EntitiesOfCall(Unwrap(w_last))
        IN (\E i \in 1..Len(entities) : entities[i].properties.tag # "EntityValue") =>
            Unwrap(w_last).result = Panic
    /\ (IsSome(w_call) /\ Unwrap(w_call).op \in ClientPutOps) =>
        LET entities == EntitiesOfCall(Unwrap(w_call))
        IN \A i \in 1..Len(entities) : entities[i].properties.tag = "EntityValue"
    /\ (w_pc = "panic") <=> (IsSome(w_last) /\ Unwrap(w_last).result = Panic)

C19_Witness ==
    /\ w_pc = "panic"
    /\ IsSome(w_tx)
    /\ Unwrap(w_last).op = "Transaction::put"
    /\ Len(Pending) = 2
    /\ w_sent = None
    /\ w_ncalls = 2

\* the policy of the client and of the transaction stay as they are
PolicyKept ==
    /\ w_client'.index_excluded = w_client.index_excluded
    /\ (IsSome(w_tx) /\ IsSome(w_tx')) =>
        Unwrap(w_tx').client.index_excluded = Unwrap(w_tx).client.index_excluded

\* C20: no put, delete, commit, rollback or new_transaction changes the
\* index exclusion policy of the client, and a transaction created from the
\* client carries, and keeps, the client's policy.
C20_PolicyReadOnly ==
    /\ [](w_client.index_excluded = IndexPolicy)
    /\ [](IsSome(w_tx) =>
            Unwrap(w_tx).client.index_excluded = w_client.index_excluded)
    /\ [][PolicyKept]_vars

C20_Witness ==
    /\ IsSome(w_tx)
    /\ Unwrap(w_tx).client.index_excluded = IndexPolicy
    /\ w_client.index_excluded = IndexPolicy
    /\ IsSome(w_last)
    /\ Unwrap(w_last).op = "Transaction::rollback"
    /\ Unwrap(w_last).result.ok
    /\ Len(Pending) = 2
    /\ w_nsent = 1

(***************************************************************************)
(* Filter translation                                                      *)
(***************************************************************************)

\* the levels of a wire filter: 1 for a property filter, one more than its
\* deepest member for a composite filter
RECURSIVE FilterDepth(_)
FilterDepth(wire_filter) ==
    LET ft == Unwrap(wire_filter.filter_type)
    IN IF ft.tag = "PropertyFilter" THEN 1
       ELSE LET depths == {FilterDepth(ft.filters[i]) : i \in 1..Len(ft.filters)}
            IN 1 + (IF depths = {} THEN 0
                    ELSE CHOOSE d \in depths : \A e \in depths : e <= d)

\* the property a filter of the query addresses on the wire
AddressedProperty(filter) ==
    IF filter.op = "HasAncestor" THEN "__key__" ELSE filter.name

\* C21: convert_filter gives no wire filter for an empty list, and for a
\* non-empty list one composite filter, with the operator of the query, that
\* holds one property filter per input filter, in input order, with the
\* filter's comparison operator and property ("__key__" for HasAncestor),
\* so that the wire filter has at most two levels.
C21_FilterTranslation ==
    c_fn = "convert_filter" =>
        LET filters == c_args[2]
            composite_filter == c_args[3]
        IN IF filters = <<>>
           THEN c_result = None
           ELSE /\ IsSome(c_result)
                /\ LET ft == Unwrap(Unwrap(c_result).filter_type)
                   IN /\ ft.tag = "CompositeFilter"
                      /\ ft.op = composite_filter
                      /\ Len(ft.filters) = Len(filters)
                      /\ \A i \in 1..Len(filters) :
                            LET pf == Unwrap(ft.filters[i].filter_type)
                            IN /\ pf.tag = "PropertyFilter"
                               /\ pf.op = filters[i].op
                               /\ Unwrap(pf.property).name = AddressedProperty(filters[i])
                               /\ pf.value = Some(convert_value(ProjectName,
                                                                filters[i].value,
                                                                <<>>, FALSE))
                /\ FilterDepth(Unwrap(c_result)) = 2

C21_Witness ==
    /\ c_fn = "convert_filter"
    /\ c_args[3] = "Or"
    /\ Len(c_args[2]) = 2
    /\ c_args[2][1].op = "HasAncestor"
    /\ c_args[2][2].op = "NotIn"
    /\ Unwrap(Unwrap(Unwrap(c_result).filter_type).filters[1].filter_type).property
            = Some([name |-> "__key__"])

(***************************************************************************)
(* Incomplete path elements                                                *)
(***************************************************************************)

\* the path elements of a wire key before the terminal one
InnerElements(wire_key) ==
    {wire_key.path[i] : i \in 1..(Len(wire_key.path) - 1)}

\* C22: in every wire key that convert_key produces, every path element
\* other than the terminal one carries an integer id or a string name.
C22_OnlyLastIncomplete ==
    c_fn = "convert_key" =>
        \A element \in InnerElements(c_result) : IsSome(element.id_type)

(***************************************************************************)
(* Termination of query pagination                                         *)
(***************************************************************************)

\* requests and responses alternate: a request is out only while the run
\* waits, or when the run ended on its failure or on a response it could
\* not read, and every page before the last asked for more
OneAtATime ==
    /\ Len(q_requests) - Len(q_pages) =
            (IF q_pc = "wait" \/ q_pc = "panic"
                \/ (q_pc = "err" /\ Unwrap(q_result) = Err("transport"))
             THEN 1 ELSE 0)
    /\ q_pc = "loop" =>
            \A i \in 1..Len(q_pages) : q_pages[i].more_results = "NotFinished"

\* a failed run returns the error and nothing else
ErrorOnly ==
    q_pc = "err" =>
        /\ Unwrap(q_result) \in {Err("token"), Err("transport")}
        /\ DOMAIN Unwrap(q_result) = {"ok", "err"}

\* a run that is over makes no further request
NoRetry ==
    q_pc \in {"done", "err", "panic"} => (q_pc' = q_pc /\ q_requests' = q_requests)

\* C23: query_run fetches its pages strictly one after another, goes on to
\* the next request whatever the number of pages fetched so far, returns
\* only the error, without retrying, when a request fails, and, when every
\* call is answered and the server sends a page that does not ask for more
\* or a request fails, comes to an end.
C23_PaginationTerminates ==
    /\ []OneAtATime
    /\ []ErrorOnly
    /\ [][NoRetry]_vars
    /\ [](q_pc = "loop" => ENABLED QuerySend)
    /\ (q_pc \in {"loop", "wait"}) ~> (q_pc \in {"done", "err", "panic"})

C23_Witness ==
    /\ q_pc = "err"
    /\ Unwrap(q_result) = Err("transport")
    /\ Len(q_pages) = MaxPages - 1
    /\ Len(q_requests) = MaxPages
    /\ q_output # <<>>

(***************************************************************************)
(* The pending list across commit and rollback                             *)
(***************************************************************************)

\* s is an initial part of t
IsPrefix(s, t) == Len(s) <= Len(t) /\ SubSeq(t, 1, Len(s)) = s

\* a step of a call on the Transaction that does not end with the caller
\* taking a new Transaction in its place
SameTransaction ==
    /\ IsSome(w_tx)
    /\ IsSome(w_tx')
    /\ w_call' = w_call

\* a step of a commit or rollback: its start, either of its polls, or its
\* being dropped
TxEndStep ==
    /\ SameTransaction
    /\ w_txcall' # w_txcall

\* C24: a commit, sent or not, answered, failed or dropped, and a rollback
\* leave the pending list of the transaction as it was; a commit sends the
\* whole list, and between commits the list only grows at its end; so a
\* later commit sends again everything an earlier commit sent, followed by
\* what was added since.
C24_CommitKeepsPending ==
    [][/\ TxEndStep =>
            /\ Unwrap(w_tx').commit_request.mutations = Pending
            /\ TxSends => Unwrap(w_sent').mutations = Pending
       /\ SameTransaction =>
            IsPrefix(Pending, Unwrap(w_tx').commit_request.mutations)
      ]_vars

C24_Witness ==
    /\ IsSome(w_tx)
    /\ IsSome(w_last)
    /\ Unwrap(w_last).op = "Transaction::commit"
    /\ Unwrap(w_last).result = Err("transport")
    /\ w_nsent = 2
    /\ w_ncalls = 3
    /\ Len(Unwrap(w_sent).mutations) = 2
    /\ TagOf(Pending[2]) = "Delete"
    /\ Pending = Unwrap(w_sent).mutations

(***************************************************************************)
(* Exact matches                                                           *)
(***************************************************************************)

\* the property nodes of a wire entity, each with the names that lead to it
\* from the top, its exclusion mark and the variant of its value
RECURSIVE MarkedNodes(_, _)
MarkedNodes(properties, prefix) ==
    UNION {
        {[path |-> Append(prefix, k),
          excl |-> properties[k].exclude_from_indexes,
          tag |-> Unwrap(properties[k].value_type).tag]} \cup
        (IF Unwrap(properties[k].value_type).tag = "EntityValue"
         THEN MarkedNodes(Unwrap(properties[k].value_type).entity.properties,
                          Append(prefix, k))
         ELSE {})
        : k \in DOMAIN properties}

\* the remainders of the paths of list that start with step
NarrowedBy(list, step) ==
    LET kept == SelectSeq(list, LAMBDA path : FirstSegment(path) = step)
    IN [i \in 1..Len(kept) |-> Remainder(kept[i])]

\* the list narrowed by each name in turn
RECURSIVE NarrowedAlong(_, _)
NarrowedAlong(list, names) ==
    IF names = <<>> THEN list
    ELSE NarrowedAlong(NarrowedBy(list, Head(names)), Tail(names))

\* the paths the policy lists for the kind of the entity
PathsOfKind(policy, entity) ==
    IF entity.key.kind \in DOMAIN policy.kind
    THEN policy.kind[entity.key.kind].property ELSE <<>>

\* a node carries the mark exactly when its narrowed list is one empty entry
MarkedIffOneEmptyEntry ==
    c_fn = "convert_entity" =>
        \A node \in MarkedNodes(c_result.properties, <<>>) :
            node.excl <=>
                (NarrowedAlong(PathsOfKind(c_args[3], c_args[2]), node.path) = << <<>> >>
                 /\ node.tag # "ArrayValue")

\* a property the policy lists more than once, exactly or with a sub-path,
\* carries no mark
ListedTwiceUnmarked ==
    c_fn = "convert_entity" =>
        LET list == PathsOfKind(c_args[3], c_args[2])
        IN \A node \in MarkedNodes(c_result.properties, <<>>) :
            (Len(node.path) = 1 /\ Len(NarrowedBy(list, node.path[1])) >= 2) => ~node.excl

\* the properties of a marked entity carry no mark
MarkNotInherited ==
    c_fn = "convert_entity" =>
        LET nodes == MarkedNodes(c_result.properties, <<>>)
        IN \A node \in nodes, inner \in nodes :
            (node.excl /\ node.tag = "EntityValue"
             /\ Len(inner.path) = Len(node.path) + 1
             /\ SubSeq(inner.path, 1, Len(node.path)) = node.path) => ~inner.excl

\* C25: a property is marked excluded only when its narrowed path list is
\* exactly one empty entry; a property the policy lists both exactly and
\* with a sub-path, or twice, is not marked, while the sub-path still marks
\* the property it names inside; and none of the properties of an exactly
\* matched nested entity is marked.
C25_ExactMatchOnly ==
    /\ MarkedIffOneEmptyEntry
    /\ ListedTwiceUnmarked
    /\ MarkNotInherited

(***************************************************************************)
(* Arrays and optionals on a path                                          *)
(***************************************************************************)

\* the nodes of a wire value, each with the property names that lead to it,
\* its exclusion mark and the variant of its value; the elements of an
\* array are reached under the names of the array
RECURSIVE ReachedNodes(_, _)
ReachedNodes(wire, names) ==
    LET value_type == Unwrap(wire.value_type)
    IN {[path |-> names, excl |-> wire.exclude_from_indexes, tag |-> value_type.tag]} \cup
       (CASE value_type.tag = "EntityValue" ->
                UNION {ReachedNodes(value_type.entity.properties[k], Append(names, k)) :
                        k \in DOMAIN value_type.entity.properties}
          [] value_type.tag = "ArrayValue" ->
                UNION {ReachedNodes(value_type.values[i], names) :
                        i \in 1..Len(value_type.values)}
          [] OTHER -> {})

\* the mark of a node that is not an array, reached by names from a value
\* converted with list and ambient: that of the list narrowed by the names
\* alone
MarkByNames(node, list, ambient) ==
    node.tag # "ArrayValue" =>
        (node.excl <=> (IF node.path = <<>> THEN ambient
                        ELSE NarrowedAlong(list, node.path) = << <<>> >>))

\* C26: arrays and optionals take up no segment of a policy path: every
\* node of a converted entity or value that is not itself an array, whether
\* it stands inside arrays or optionals or not, is marked by the path list
\* narrowed by the property names that lead to it, one narrowing per entity
\* property and none per array or optional.
C26_ContainersKeepPaths ==
    /\ c_fn = "convert_entity" =>
        \A k \in DOMAIN c_result.properties :
            \A node \in ReachedNodes(c_result.properties[k], <<k>>) :
                MarkByNames(node, PathsOfKind(c_args[3], c_args[2]), FALSE)
    /\ c_fn = "convert_value" =>
        \A node \in ReachedNodes(c_result, <<>>) :
            MarkByNames(node, c_args[3], c_args[4])

\* items.sku marks the sku of every entity among the items, at any depth
\* of arrays and optionals, and gift.sku the sku of the optional gift
C26_Witness ==
    /\ c_fn = "convert_entity"
    /\ c_args[2] = ItemsCustomer
    /\ c_args[3] = ItemsPolicy
    /\ LET nodes == UNION {ReachedNodes(c_result.properties[k], <<k>>) :
                            k \in DOMAIN c_result.properties}
       IN /\ Cardinality({node \in nodes : node.path = <<s_items, s_sku>>}) = 1
          /\ \A node \in nodes :
                node.excl <=> node.path \in {<<s_items, s_sku>>, <<s_gift, s_sku>>}
          /\ \E node \in nodes : node.path = <<s_items, s_city>>
          /\ \E node \in nodes : node.path = <<s_sku>>
    /\ LET items == Unwrap(c_result.properties[s_items].value_type).values
       IN /\ Len(items) = 4
          /\ Unwrap(items[1].value_type).entity.properties[s_sku].exclude_from_indexes
          /\ Unwrap(items[2].value_type).entity.properties[s_sku].exclude_from_indexes
          /\ Unwrap(Unwrap(items[3].value_type).values[1].value_type)
                .entity.properties[s_sku].exclude_from_indexes

(***************************************************************************)
(* A put_all with an item that fails                                       *)
(***************************************************************************)

TxPutOps == {"Transaction::put", "Transaction::put_all"}

\* the item lists of which at least one item cannot be made into an entity
FailingLists ==
    {items \in SeqsUpTo(PutItems, MaxBatch) : \E i \in 1..Len(items) : ~items[i].ok}

\* the error of the first item that fails
FirstError(items) ==
    items[CHOOSE i \in 1..Len(items) :
            ~items[i].ok /\ \A j \in 1..(i - 1) : items[j].ok].err

\* C27: a put or put_all on a transaction in which an item cannot be made
\* into an entity returns the error of that item and leaves the pending
\* list as it was before the call, the items before the failing one
\* included; and whenever the call returns an error nothing was queued.
C27_PutAllAllOrNothing ==
    [][(IsSome(w_tx) /\ ReturnsAtOnce /\ Unwrap(w_last').op \in TxPutOps) =>
        /\ Unwrap(w_last').result \notin {Ok(<<>>), Panic} =>
            (w_tx' = w_tx /\ w_supplied' = w_supplied /\ w_sent' = w_sent)
        /\ \A items \in FailingLists :
            (TxPutAll(items) \/ (Len(items) = 1 /\ TxPut(items[1]))) =>
                /\ Unwrap(w_last').result = Err(FirstError(items))
                /\ w_tx' = w_tx
                /\ w_supplied' = w_supplied
      ]_vars

C27_Witness ==
    /\ IsSome(w_tx)
    /\ IsSome(w_last)
    /\ Unwrap(w_last).op = "Transaction::put_all"
    /\ Unwrap(w_last).result = Err("MissingProperty")
    /\ Len(Pending) = 2
    /\ TagOf(Pending[1]) = "Insert"
    /\ w_nsent = 0

====
